---- MODULE Spec2Model ----
(***************************************************************************)
(* budgetui: CSV import, dedup hashing, rule-based categorization and the  *)
(* interactive categorization wizard.                                       *)
(*                                                                         *)
(* Strings are sequences of one-character strings, so that the code's      *)
(* character-level operations (to_lowercase, contains, trim, replace) are  *)
(* computed and not assumed.  The text handled is ASCII.                    *)
(***************************************************************************)
EXTENDS Integers, Sequences, FiniteSets, TLC

VARIABLES
    \* hashing two rows (compute_hash as CsvImporter::parse calls it)
    hash_in,            \* the two rows hashed: account, position, cells
    hash_out,           \* their import_hash, None before it is computed
    \* the ledger (SQLite)
    db_transactions,    \* table transactions, in rowid order
    db_call,            \* the last call made on the ledger and its result
    \* the categorizer
    cz_rules,           \* the rule list handed to Categorizer::new
    cz_categorizer,     \* what Categorizer::new returned, None before the call
    cz_batch,           \* the transactions handed to categorize_batch
    cz_call,            \* the last call made on the categorizer and its result
    \* the interactive import (App, Database, the run_app loop)
    app,                \* the App fields the import reads and writes
    db_categories,      \* table categories, in rowid order
    db_rules,           \* table import_rules, in rowid order
    running,            \* run_app is in its loop; FALSE once a handler's error ended it
    wiz,                \* the last handler run, and what the operator skipped
    \* a function of the importer called on its own
    call_in,            \* its arguments
    call_out            \* what has been computed from them so far

hashVars == <<hash_in, hash_out>>
dbVars == <<db_transactions, db_call>>
czVars == <<cz_rules, cz_categorizer, cz_batch, cz_call>>
wizVars == <<app, db_categories, db_rules, running, wiz>>
callVars == <<call_in, call_out>>
vars == <<hash_in, hash_out, db_transactions, db_call,
          cz_rules, cz_categorizer, cz_batch, cz_call,
          app, db_categories, db_rules, running, wiz, call_in, call_out>>

\* Option<T>: None is the empty sequence, Some(x) a sequence of one element
None == <<>>
Some(x) == <<x>>
Unwrap(o) == o[1]

(***************************************************************************)
(* Characters and strings                                                   *)
(***************************************************************************)
Digits == <<"0", "1", "2", "3", "4", "5", "6", "7", "8", "9">>
DigitSet == {Digits[i] : i \in 1..10}
DigitVal(c) == CHOOSE v \in 0..9 : Digits[v + 1] = c

LowerLetters == <<"a", "b", "c", "d", "e", "f", "g", "h", "i", "j", "k", "l", "m",
                  "n", "o", "p", "q", "r", "s", "t", "u", "v", "w", "x", "y", "z">>
UpperLetters == <<"A", "B", "C", "D", "E", "F", "G", "H", "I", "J", "K", "L", "M",
                  "N", "O", "P", "Q", "R", "S", "T", "U", "V", "W", "X", "Y", "Z">>
LowerSet == {LowerLetters[i] : i \in 1..26}
UpperSet == {UpperLetters[i] : i \in 1..26}

\* char::to_lowercase / to_uppercase on ASCII
ToLowerChar(c) ==
    IF c \in UpperSet THEN LowerLetters[CHOOSE i \in 1..26 : UpperLetters[i] = c] ELSE c
ToUpperChar(c) ==
    IF c \in LowerSet THEN UpperLetters[CHOOSE i \in 1..26 : LowerLetters[i] = c] ELSE c

\* str::to_lowercase / to_uppercase
\* a to_lowercase that leaves the text as it is
SameCase(s) == s
to_lowercase(s) == [i \in 1..Len(s) |-> ToLowerChar(s[i])]
to_uppercase(s) == [i \in 1..Len(s) |-> ToUpperChar(s[i])]

\* The punctuation the importer meets, with its ASCII code
Punct == <<" ", "#", "$", "(", ")", "*", "+", ",", "-", ".", "/", "[", "^", "|">>
PunctCode == <<32, 35, 36, 40, 41, 42, 43, 44, 45, 46, 47, 91, 94, 124>>

\* u8 value of a character (str::as_bytes on ASCII text)
Byte(c) ==
    IF c \in DigitSet THEN 48 + DigitVal(c)
    ELSE IF c \in UpperSet THEN 64 + (CHOOSE i \in 1..26 : UpperLetters[i] = c)
    ELSE IF c \in LowerSet THEN 96 + (CHOOSE i \in 1..26 : LowerLetters[i] = c)
    ELSE PunctCode[CHOOSE i \in 1..Len(Punct) : Punct[i] = c]

\* str::contains(pat): pat occurs in s as a contiguous substring
contains(s, pat) ==
    \E k \in 0..(Len(s) - Len(pat)) : \A j \in 1..Len(pat) : s[k + j] = pat[j]

IsSpace(c) == c = " "

\* str::trim: drop leading and trailing whitespace
RECURSIVE trim_start(_)
trim_start(s) ==
    IF s # <<>> /\ IsSpace(Head(s)) THEN trim_start(Tail(s)) ELSE s
RECURSIVE trim_end(_)
trim_end(s) ==
    IF s # <<>> /\ IsSpace(s[Len(s)]) THEN trim_end(SubSeq(s, 1, Len(s) - 1)) ELSE s
trim(s) == trim_end(trim_start(s))

\* str::replace(c, with) for a one-character pattern chosen by a predicate set
RECURSIVE replace_chars(_, _, _)
replace_chars(s, from, with) ==
    IF s = <<>> THEN <<>>
    ELSE (IF Head(s) \in from THEN with ELSE <<Head(s)>>)
         \o replace_chars(Tail(s), from, with)

(***************************************************************************)
(* FNV-1a, 64 bit.  A u64 is eight bytes, least significant first, so that *)
(* wrapping_mul is computed exactly (TLC's integers are 32 bit).            *)
(***************************************************************************)
\* 0xcbf29ce484222325
FnvOffsetBasis == <<37, 35, 34, 132, 228, 156, 242, 203>>
\* 0x100000001b3
FnvPrime == <<179, 1, 0, 0, 0, 1, 0, 0>>

RECURSIVE XorBits(_, _)
XorBits(a, b) ==
    IF a = 0 THEN b
    ELSE IF b = 0 THEN a
    ELSE ((a + b) % 2) + 2 * XorBits(a \div 2, b \div 2)

\* column k of the schoolbook product: sum of x[i] * y[k + 1 - i]
RECURSIVE ColSum(_, _, _, _)
ColSum(x, y, k, i) ==
    IF i > k THEN 0 ELSE x[i] * y[k + 1 - i] + ColSum(x, y, k, i + 1)

RECURSIVE Carry(_, _, _, _)
Carry(x, y, k, c) ==
    IF k > 8 THEN <<>>
    ELSE LET t == ColSum(x, y, k, 1) + c
         IN  <<t % 256>> \o Carry(x, y, k + 1, t \div 256)

\* u64::wrapping_mul
wrapping_mul(x, y) == Carry(x, y, 1, 0)

\* one round of the loop: hash ^= byte; hash = hash.wrapping_mul(prime)
FnvRound(hash, byte) ==
    wrapping_mul([hash EXCEPT ![1] = XorBits(hash[1], byte)], FnvPrime)

\* the loop over the bytes, hash being the value before the first of data
FnvFold[hash \in Seq(Nat), data \in Seq(STRING)] ==
    IF data = <<>> THEN hash
    ELSE FnvFold[FnvRound(hash, Byte(Head(data))), Tail(data)]

fnv1a(data) == FnvFold[FnvOffsetBasis, data]

HexDigits == <<"0", "1", "2", "3", "4", "5", "6", "7", "8", "9",
               "a", "b", "c", "d", "e", "f">>

\* format!("{hash:016x}")
Hex16(h) ==
    [i \in 1..16 |->
        LET b == h[8 - ((i - 1) \div 2)]
        IN  HexDigits[(IF i % 2 = 1 THEN b \div 16 ELSE b % 16) + 1]]

(***************************************************************************)
(* rust_decimal::Decimal: sign, integer mantissa and scale (the number of  *)
(* digits after the point, which Display keeps: "4.50" is not "4.5").      *)
(***************************************************************************)
Decimal(neg, mant, scale) == [neg |-> neg, mant |-> mant, scale |-> scale]
DecimalZero == Decimal(FALSE, 0, 0)

RECURSIVE Pow10(_)
Pow10(n) == IF n = 0 THEN 1 ELSE 10 * Pow10(n - 1)

RECURSIVE NatToStr(_)
NatToStr(n) ==
    IF n < 10 THEN <<Digits[n + 1]>> ELSE NatToStr(n \div 10) \o <<Digits[(n % 10) + 1]>>

RECURSIVE ZeroPad(_, _)
ZeroPad(s, width) == IF Len(s) >= width THEN s ELSE ZeroPad(<<"0">> \o s, width)

\* <Decimal as Display>::fmt
DecimalToString(d) ==
    LET digits == ZeroPad(NatToStr(d.mant), d.scale + 1)
        int    == SubSeq(digits, 1, Len(digits) - d.scale)
        frac   == SubSeq(digits, Len(digits) - d.scale + 1, Len(digits))
    IN  (IF d.neg THEN <<"-">> ELSE <<>>)
        \o int
        \o (IF d.scale > 0 THEN <<".">> \o frac ELSE <<>>)

\* Neg for Decimal and Decimal::abs
DecimalNeg(d) == [d EXCEPT !.neg = ~d.neg]
DecimalAbs(d) == [d EXCEPT !.neg = FALSE]

RECURSIVE DigitsToNat(_)
DigitsToNat(s) ==
    IF s = <<>> THEN 0 ELSE 10 * DigitsToNat(SubSeq(s, 1, Len(s) - 1)) + DigitVal(s[Len(s)])

AllDigits(s) == \A i \in 1..Len(s) : s[i] \in DigitSet

Ok(v) == [ok |-> TRUE, val |-> v]
Err(msg) == [ok |-> FALSE, err |-> msg]

\* Decimal::from_str: [+-] digits [. digits], at least one digit
DecimalFromStr(s) ==
    LET signed == s # <<>> /\ s[1] \in {"-", "+"}
        body   == IF signed THEN Tail(s) ELSE s
        dots   == {i \in 1..Len(body) : body[i] = "."}
        int    == IF dots = {} THEN body
                  ELSE SubSeq(body, 1, (CHOOSE i \in dots : TRUE) - 1)
        frac   == IF dots = {} THEN <<>>
                  ELSE SubSeq(body, (CHOOSE i \in dots : TRUE) + 1, Len(body))
    IN  IF Cardinality(dots) <= 1 /\ AllDigits(int) /\ AllDigits(frac)
           /\ Len(int) + Len(frac) > 0
        THEN LET mant == DigitsToNat(int \o frac)
             IN  Ok(Decimal(signed /\ s[1] = "-" /\ mant # 0, mant, Len(frac)))
        ELSE Err("decimal")

\* parse_decimal: strip '$' and ',', '(' becomes '-', ')' is dropped, trim;
\* blank is zero.  (The retry without '"' changes nothing: the text has none.)
parse_decimal(s) ==
    LET cleaned == trim(replace_chars(replace_chars(replace_chars(s,
                        {"$", ","}, <<>>), {"("}, <<"-">>), {")"}, <<>>))
    IN  IF cleaned = <<>> THEN Ok(DecimalZero) ELSE DecimalFromStr(cleaned)

\* compute_hash: FNV-1a of "{date}|{description}|{amount}", 16 hex digits
compute_hash(date, description, amount) ==
    Hex16(fnv1a(date \o <<"|">> \o description \o <<"|">> \o DecimalToString(amount)))

\* The hash CsvImporter::parse gives the row at index i of a file read for
\* account_id: the call passes the date cell, the description and the amount.
row_hash(account_id, i, date_str, description, amount) ==
    compute_hash(date_str, description, amount)

(***************************************************************************)
(* chrono::NaiveDate::parse_from_str for the formats the importer uses.     *)
(* A format is a sequence of items: "%m", "%d", "%Y", "%y" or a literal.    *)
(***************************************************************************)
Fmt_mdY_slash == <<"%m", "/", "%d", "/", "%Y">>
Fmt_Ymd_dash  == <<"%Y", "-", "%m", "-", "%d">>
Fmt_mdY_dash  == <<"%m", "-", "%d", "-", "%Y">>
Fmt_mdy_slash == <<"%m", "/", "%d", "/", "%y">>
Fmt_dmY_slash == <<"%d", "/", "%m", "/", "%Y">>

\* the fallback list of parse_date, in its order
FallbackFormats == <<Fmt_mdY_slash, Fmt_Ymd_dash, Fmt_mdY_dash, Fmt_mdy_slash, Fmt_dmY_slash>>

\* widest number an item reads: four digits for %Y, two for the others
ItemWidth(item) == IF item = "%Y" THEN 4 ELSE 2

RECURSIVE LeadingDigits(_, _)
LeadingDigits(s, max) ==
    IF max = 0 \/ s = <<>> \/ Head(s) \notin DigitSet THEN <<>>
    ELSE <<Head(s)>> \o LeadingDigits(Tail(s), max - 1)

\* fields read so far: a function from item to number
RECURSIVE ScanItems(_, _, _)
ScanItems(s, fmt, fields) ==
    IF fmt = <<>> THEN (IF s = <<>> THEN Ok(fields) ELSE Err("too long"))
    ELSE LET item == Head(fmt) IN
         IF item \in {"%m", "%d", "%Y", "%y"}
         THEN LET t == trim_start(s)
                  ds == LeadingDigits(t, ItemWidth(item))
              IN  IF ds = <<>> THEN Err("invalid")
                  ELSE ScanItems(SubSeq(t, Len(ds) + 1, Len(t)), Tail(fmt),
                                 [fields EXCEPT ![item] = Some(DigitsToNat(ds))])
         ELSE IF s # <<>> /\ Head(s) = item
              THEN ScanItems(Tail(s), Tail(fmt), fields)
              ELSE Err("invalid")

IsLeap(y) == y % 4 = 0 /\ (y % 100 # 0 \/ y % 400 = 0)
DaysInMonth(y, m) ==
    IF m = 2 THEN (IF IsLeap(y) THEN 29 ELSE 28)
    ELSE IF m \in {4, 6, 9, 11} THEN 30 ELSE 31

NaiveDate(y, m, d) == [year |-> y, month |-> m, day |-> d]

\* NaiveDate::parse_from_str(s, fmt)
parse_from_str(s, fmt) ==
    LET r == ScanItems(s, fmt, [i \in {"%m", "%d", "%Y", "%y"} |-> None]) IN
    IF ~r.ok THEN r
    ELSE LET f == r.val
             y == IF f["%Y"] # None THEN Unwrap(f["%Y"])
                  ELSE IF Unwrap(f["%y"]) < 70 THEN 2000 + Unwrap(f["%y"])
                  ELSE 1900 + Unwrap(f["%y"])
             m == Unwrap(f["%m"])
             d == Unwrap(f["%d"])
         IN  IF m \in 1..12 /\ d >= 1 /\ d <= DaysInMonth(y, m)
             THEN Ok(NaiveDate(y, m, d))
             ELSE Err("out of range")

RECURSIVE TryFormats(_, _)
TryFormats(s, fmts) ==
    IF fmts = <<>> THEN Err("Could not parse date")
    ELSE LET r == parse_from_str(s, Head(fmts))
         IN  IF r.ok THEN r ELSE TryFormats(s, Tail(fmts))

\* a parse_date that tries the fallbacks only
ParseDateFallbacksOnly(s, fmt) == TryFormats(s, FallbackFormats)

\* parse_date: the profile's format first, then the fallbacks in order
parse_date(s, fmt) == TryFormats(s, <<fmt>> \o FallbackFormats)

\* date.format("%Y-%m-%d")
FormatIsoDate(d) ==
    ZeroPad(NatToStr(d.year), 4) \o <<"-">> \o ZeroPad(NatToStr(d.month), 2)
    \o <<"-">> \o ZeroPad(NatToStr(d.day), 2)

(***************************************************************************)
(* CsvProfile and CsvImporter::parse                                        *)
(***************************************************************************)
\* CsvProfile::default()
DefaultProfile ==
    [name |-> "Custom", date_column |-> 0, description_column |-> 1,
     amount_column |-> Some(2), debit_column |-> None, credit_column |-> None,
     date_format |-> Fmt_mdY_slash, has_header |-> TRUE, skip_rows |-> 0,
     negate_amounts |-> FALSE]

\* row.get(c).map(|s| s.trim()).unwrap_or_default(): columns count from 0
Cell(row, c) == IF c + 1 <= Len(row) THEN trim(row[c + 1]) ELSE <<>>
OptCell(row, oc) == IF oc = None THEN <<>> ELSE Cell(row, Unwrap(oc))

\* a parse_amount that reads the amount column only, never negating
ParseAmountColumnOnly(row, profile) ==
    parse_decimal(OptCell(row, profile.amount_column))

\* parse_amount
parse_amount(row, profile) ==
    LET debit  == OptCell(row, profile.debit_column)
        credit == OptCell(row, profile.credit_column)
        amount ==
            IF profile.amount_column # None
            THEN parse_decimal(Cell(row, Unwrap(profile.amount_column)))
            ELSE IF debit # <<>>
                 THEN LET r == parse_decimal(debit)
                      IN  IF r.ok THEN Ok(DecimalNeg(DecimalAbs(r.val))) ELSE r
            ELSE IF credit # <<>>
                 THEN LET r == parse_decimal(credit)
                      IN  IF r.ok THEN Ok(DecimalAbs(r.val)) ELSE r
            ELSE Ok(DecimalZero)
    IN  IF amount.ok /\ profile.negate_amounts THEN Ok(DecimalNeg(amount.val)) ELSE amount

\* The Transaction parse builds (created_at, the wall clock of the parse, is
\* not modelled: nothing reads it)
Transaction(account_id, date, description, amount, hash) ==
    [account_id |-> account_id, date |-> date, description |-> description,
     original_description |-> description, amount |-> amount, category_id |-> None,
     notes |-> <<>>, is_transfer |-> FALSE, import_hash |-> hash]

\* CsvImporter::parse from row index i (0-based) on, acc the transactions so far
RECURSIVE ParseFrom(_, _, _, _, _)
ParseFrom(rows, profile, account_id, i, acc) ==
    IF i >= Len(rows) THEN Ok(acc)
    ELSE LET row      == rows[i + 1]
             date_str == Cell(row, profile.date_column)
         IN
         IF date_str = <<>> THEN ParseFrom(rows, profile, account_id, i + 1, acc)
         ELSE LET date        == parse_date(date_str, profile.date_format)
                  description == Cell(row, profile.description_column)
                  amount      == parse_amount(row, profile)
              IN
              IF ~date.ok THEN Err(<<"Row", i + 1, "date">>)
              ELSE IF ~amount.ok THEN Err(<<"Row", i + 1, "amount">>)
              ELSE ParseFrom(rows, profile, account_id, i + 1,
                       Append(acc, Transaction(account_id, FormatIsoDate(date.val),
                           description, amount.val,
                           row_hash(account_id, i, date_str, description, amount.val))))

\* a parse that drops the rows it cannot read instead of failing
ParseLenient(rows, profile, account_id) ==
    LET readable(row) ==
            /\ parse_date(Cell(row, profile.date_column), profile.date_format).ok
            /\ parse_amount(row, profile).ok
        cleaned == [i \in 1..Len(rows) |-> IF readable(rows[i]) THEN rows[i] ELSE <<>>]
    IN  ParseFrom(cleaned, profile, account_id, profile.skip_rows, <<>>)

\* a parse that ignores skip_rows
ParseNoSkip(rows, profile, account_id) ==
    ParseFrom(rows, profile, account_id, 0, <<>>)

\* CsvImporter::parse(rows, profile, account_id)
parse(rows, profile, account_id) ==
    ParseFrom(rows, profile, account_id, profile.skip_rows, <<>>)

(***************************************************************************)
(* Database: table transactions and insert_transactions_batch               *)
(***************************************************************************)
\* SELECT EXISTS(... WHERE import_hash = ?1 AND import_hash != '')
HashExists(table, hash) ==
    \E i \in 1..Len(table) : table[i].import_hash = hash /\ table[i].import_hash # <<>>

InsertNoDedup(table, txns) == [table |-> table \o txns, count |-> Len(txns)]

RECURSIVE InsertDedupAgainst(_, _, _, _)
InsertDedupAgainst(before, table, txns, count) ==
    IF txns = <<>> THEN [table |-> table, count |-> count]
    ELSE IF Head(txns).import_hash # <<>> /\ HashExists(before, Head(txns).import_hash)
         THEN InsertDedupAgainst(before, table, Tail(txns), count)
         ELSE InsertDedupAgainst(before, Append(table, Head(txns)), Tail(txns), count + 1)
InsertDedupCommitted(table, txns) == InsertDedupAgainst(table, table, txns, 0)

RECURSIVE InsertFrom(_, _, _)
InsertFrom(table, txns, count) ==
    IF txns = <<>> THEN [table |-> table, count |-> count]
    ELSE IF Head(txns).import_hash # <<>> /\ HashExists(table, Head(txns).import_hash)
         THEN InsertFrom(table, Tail(txns), count)
         ELSE InsertFrom(Append(table, Head(txns)), Tail(txns), count + 1)

\* Database::insert_transactions_batch run to its commit: the table after it
\* and the count it returns.  Each row is looked up inside the transaction, so
\* it sees the rows inserted before it by the same call.
insert_transactions_batch(table, txns) == InsertFrom(table, txns, 0)

NoCall == [op |-> "none", file |-> <<>>, account_id |-> 0, batch |-> <<>>,
           repeat |-> FALSE, result |-> Err("none")]

DbIdle == db_transactions = <<>> /\ db_call = NoCall

(***************************************************************************)
(* Categorizer (categorize/mod.rs)                                          *)
(***************************************************************************)
\* ImportRule::new_contains and ImportRule::new_regex
new_contains(pattern, category_id) ==
    [id |-> None, pattern |-> pattern, category_id |-> category_id,
     is_regex |-> FALSE, priority |-> 0]
new_regex(pattern, category_id) ==
    [id |-> None, pattern |-> pattern, category_id |-> category_id,
     is_regex |-> TRUE, priority |-> 0]

\* Regex::new on the syntax the rules below are written in: a literal
\* character, '.', the anchor '^', and a bracketed class of literal characters
\* (the character after '[' always belongs to the class); a '[' that is never
\* closed is a syntax error.  acc is the sequence of items parsed so far.
RECURSIVE RegexParse(_, _)
RegexParse(p, acc) ==
    IF p = <<>> THEN Ok(acc)
    ELSE IF Head(p) = "^" THEN RegexParse(Tail(p), Append(acc, [kind |-> "start", chars |-> {}]))
    ELSE IF Head(p) = "." THEN RegexParse(Tail(p), Append(acc, [kind |-> "any", chars |-> {}]))
    ELSE IF Head(p) = "["
         THEN LET closes == {k \in 3..Len(p) : p[k] = "]"} IN
              IF closes = {} THEN Err("unclosed character class")
              ELSE LET close == CHOOSE k \in closes : \A j \in closes : k <= j IN
                   RegexParse(SubSeq(p, close + 1, Len(p)),
                       Append(acc, [kind |-> "chars", chars |-> {p[j] : j \in 2..(close - 1)}]))
    ELSE RegexParse(Tail(p), Append(acc, [kind |-> "chars", chars |-> {Head(p)}]))

RegexNew(pattern) == RegexParse(pattern, <<>>)

\* the items match s from offset pos on (pos characters are before the match)
RECURSIVE MatchAt(_, _, _)
MatchAt(items, s, pos) ==
    IF items = <<>> THEN TRUE
    ELSE LET item == Head(items) IN
         IF item.kind = "start" THEN pos = 0 /\ MatchAt(Tail(items), s, pos)
         ELSE /\ pos < Len(s)
              /\ (item.kind = "any" \/ s[pos + 1] \in item.chars)
              /\ MatchAt(Tail(items), s, pos + 1)

\* Regex::is_match: the pattern matches somewhere in s, letter case included
is_match(re, s) == \E pos \in 0..Len(s) : MatchAt(re, s, pos)

\* Categorizer::new: a CompiledRule per rule, in the order of the list
CompiledRule(r) ==
    [pattern |-> to_lowercase(r.pattern),
     regex |-> IF r.is_regex
               THEN LET re == RegexNew(r.pattern) IN IF re.ok THEN Some(re.val) ELSE None
               ELSE None,
     category_id |-> r.category_id,
     is_regex |-> r.is_regex]

\* the same, the pattern of a rule kept as it was written
NewKeepCase(rules) ==
    [rules |-> [i \in 1..Len(rules) |-> [CompiledRule(rules[i]) EXCEPT !.pattern = rules[i].pattern]]]

Categorizer_new(rules) ==
    [rules |-> [i \in 1..Len(rules) |-> CompiledRule(rules[i])]]

\* the test of one compiled rule in Categorizer::categorize
RuleMatched(rule, description, desc_lower) ==
    IF rule.is_regex
    THEN rule.regex # None /\ is_match(Unwrap(rule.regex), description)
    ELSE contains(desc_lower, rule.pattern)

\* the loop of Categorizer::categorize from rule i on
RECURSIVE CategorizeFrom(_, _, _, _)
CategorizeFrom(rules, description, desc_lower, i) ==
    IF i > Len(rules) THEN None
    ELSE IF RuleMatched(rules[i], description, desc_lower) THEN Some(rules[i].category_id)
    ELSE CategorizeFrom(rules, description, desc_lower, i + 1)

\* the category of the last rule that matches
CategorizeLastMatch(self, description) ==
    LET hits == {i \in 1..Len(self.rules) :
                    RuleMatched(self.rules[i], description, to_lowercase(description))}
    IN  IF hits = {} THEN None
        ELSE Some(self.rules[CHOOSE i \in hits : \A j \in hits : j <= i].category_id)

categorize(self, description) ==
    CategorizeFrom(self.rules, description, to_lowercase(description), 1)

\* categorize_batch reading the description field
CategorizeBatchByDescription(self, transactions) ==
    [i \in 1..Len(transactions) |->
        IF transactions[i].category_id = None
        THEN [transactions[i] EXCEPT !.category_id = categorize(self, transactions[i].description)]
        ELSE transactions[i]]

categorize_batch(self, transactions) ==
    [i \in 1..Len(transactions) |->
        IF transactions[i].category_id = None
        THEN [transactions[i] EXCEPT
                 !.category_id = categorize(self, transactions[i].original_description)]
        ELSE transactions[i]]

\* suggest_rule: the words of s, separated by whitespace (cur is the word being read)
RECURSIVE SplitWhitespace(_, _, _)
SplitWhitespace(s, cur, acc) ==
    IF s = <<>> THEN (IF cur = <<>> THEN acc ELSE Append(acc, cur))
    ELSE IF IsSpace(Head(s))
         THEN SplitWhitespace(Tail(s), <<>>, IF cur = <<>> THEN acc ELSE Append(acc, cur))
    ELSE SplitWhitespace(Tail(s), Append(cur, Head(s)), acc)
split_whitespace(s) == SplitWhitespace(s, <<>>, <<>>)

\* a suggest_rule that keeps the first word only
SuggestFirstWord(description) ==
    LET words == split_whitespace(trim(replace_chars(replace_chars(replace_chars(
                     to_uppercase(description), DigitSet, <<>>), {"#"}, <<>>), {"*"}, <<" ">>)))
    IN  Ok(to_lowercase(IF words = <<>> THEN description ELSE words[1]))

suggest_rule(description) ==
    LET cleaned == trim(replace_chars(replace_chars(replace_chars(
                       to_uppercase(description), DigitSet, <<>>), {"#"}, <<>>), {"*"}, <<" ">>))
        words   == split_whitespace(cleaned)
        pattern == IF Len(words) >= 2 THEN words[1] \o <<" ">> \o words[2]
                   ELSE IF words # <<>> THEN words[1]
                   ELSE description
    IN  Ok(to_lowercase(pattern))

(***************************************************************************)
(* Storage of categories and rules (db/mod.rs)                              *)
(***************************************************************************)
\* byte-wise order of two strings (SQLite's BINARY collation)
RECURSIVE StrLess(_, _)
StrLess(a, b) ==
    IF b = <<>> THEN FALSE
    ELSE IF a = <<>> THEN TRUE
    ELSE IF Byte(Head(a)) # Byte(Head(b)) THEN Byte(Head(a)) < Byte(Head(b))
    ELSE StrLess(Tail(a), Tail(b))

\* ORDER BY: the rows of a table sorted by the keys compared in before (the
\* pairs <<i, j>> of rows with row i sorting before row j), rows that compare
\* equal in rowid order
OrderBy(table, before) ==
    LET n == Len(table)
        rank(i) == 1 + Cardinality({j \in 1..n :
                          \/ <<j, i>> \in before
                          \/ <<i, j>> \notin before /\ j < i})
    IN  [k \in 1..n |-> table[CHOOSE i \in 1..n : rank(i) = k]]

\* SELECT id, name FROM categories ORDER BY name
get_categories(table) ==
    OrderBy(table, {p \in (1..Len(table)) \X (1..Len(table)) :
                       StrLess(table[p[1]].name, table[p[2]].name)})

\* INSERT INTO categories (name): name is UNIQUE; returns last_insert_rowid
insert_category(table, name) ==
    IF \E i \in 1..Len(table) : table[i].name = name
    THEN Err("UNIQUE constraint failed: categories.name")
    ELSE Ok([table |-> Append(table, [id |-> Some(Len(table) + 1), name |-> name]),
             id |-> Len(table) + 1])

\* SELECT ... FROM import_rules ORDER BY priority DESC, pattern
get_import_rules(table) ==
    OrderBy(table, {p \in (1..Len(table)) \X (1..Len(table)) :
                       \/ table[p[1]].priority > table[p[2]].priority
                       \/ /\ table[p[1]].priority = table[p[2]].priority
                          /\ StrLess(table[p[1]].pattern, table[p[2]].pattern)})

\* INSERT INTO import_rules: category_id REFERENCES categories(id)
insert_import_rule(table, cats, rule) ==
    IF ~\E i \in 1..Len(cats) : cats[i].id = Some(rule.category_id)
    THEN Err("FOREIGN KEY constraint failed")
    ELSE Ok([table |-> Append(table, [rule EXCEPT !.id = Some(Len(table) + 1)]),
             id |-> Len(table) + 1])

(***************************************************************************)
(* The App during an import (ui/app.rs).  The screen is Import throughout;  *)
(* the status line and the scroll offsets are drawn and never read back.    *)
(***************************************************************************)
\* App::generate_import_preview
generate_import_preview(a, parsed) ==
    IF parsed.ok
    THEN Ok([a EXCEPT !.import_preview = parsed.val, !.import_step = "Preview"])
    ELSE parsed

\* the unique original_description of the uncategorized transactions from
\* position i on, in order of first occurrence
RECURSIVE CatOrder(_, _, _)
CatOrder(txns, i, order) ==
    IF i > Len(txns) THEN order
    ELSE IF /\ txns[i].category_id = None
            /\ ~\E k \in 1..Len(order) : order[k] = txns[i].original_description
         THEN CatOrder(txns, i + 1, Append(order, txns[i].original_description))
    ELSE CatOrder(txns, i + 1, order)

\* prepare_categorize_step listing the description of every uncategorized
\* transaction, repeated or not
PrepareNoDedup(a) ==
    LET txns  == SelectSeq(a.import_preview, LAMBDA t : t.category_id = None)
        descriptions == [k \in 1..Len(txns) |-> <<txns[k].original_description, 1>>]
    IN  [app |-> [a EXCEPT !.import_cat_descriptions = descriptions,
                           !.import_cat_index = 0,
                           !.import_cat_selected = 0,
                           !.import_cat_new_name = <<>>,
                           !.import_cat_creating = FALSE],
         entered |-> descriptions # <<>>]

\* App::prepare_categorize_step: the new App, and whether there is something
\* to categorize
prepare_categorize_step(a) ==
    LET order == CatOrder(a.import_preview, 1, <<>>)
        count(desc) == Cardinality({i \in 1..Len(a.import_preview) :
                          /\ a.import_preview[i].category_id = None
                          /\ a.import_preview[i].original_description = desc})
        descriptions == [k \in 1..Len(order) |-> <<order[k], count(order[k])>>]
    IN  [app |-> [a EXCEPT !.import_cat_descriptions = descriptions,
                           !.import_cat_index = 0,
                           !.import_cat_selected = 0,
                           !.import_cat_new_name = <<>>,
                           !.import_cat_creating = FALSE],
         entered |-> descriptions # <<>>]

\* apply_category_to_current stopping at the first transaction it finds
ApplyFirstOnly(a, category_id) ==
    IF a.import_cat_index < Len(a.import_cat_descriptions)
    THEN LET desc == a.import_cat_descriptions[a.import_cat_index + 1][1]
             hits == {i \in 1..Len(a.import_preview) :
                         /\ a.import_preview[i].original_description = desc
                         /\ a.import_preview[i].category_id = None}
         IN  [a EXCEPT !.import_preview = [i \in 1..Len(a.import_preview) |->
                 IF i \in hits /\ \A j \in hits : i <= j
                 THEN [a.import_preview[i] EXCEPT !.category_id = Some(category_id)]
                 ELSE a.import_preview[i]]]
    ELSE a

\* apply_category_to_current not comparing the description
ApplyToAll(a, category_id) ==
    IF a.import_cat_index < Len(a.import_cat_descriptions)
    THEN [a EXCEPT !.import_preview = [i \in 1..Len(a.import_preview) |->
             IF a.import_preview[i].category_id = None
             THEN [a.import_preview[i] EXCEPT !.category_id = Some(category_id)]
             ELSE a.import_preview[i]]]
    ELSE a

\* App::apply_category_to_current
apply_category_to_current(a, category_id) ==
    IF a.import_cat_index < Len(a.import_cat_descriptions)
    THEN LET desc == a.import_cat_descriptions[a.import_cat_index + 1][1] IN
         [a EXCEPT !.import_preview = [i \in 1..Len(a.import_preview) |->
             IF /\ a.import_preview[i].original_description = desc
                /\ a.import_preview[i].category_id = None
             THEN [a.import_preview[i] EXCEPT !.category_id = Some(category_id)]
             ELSE a.import_preview[i]]]
    ELSE a

\* advance_categorize reporting the move without making it
AdvanceStaying(a) ==
    [app |-> a, advanced |-> a.import_cat_index + 1 < Len(a.import_cat_descriptions)]

\* advance_categorize going back to the first description after the last
AdvanceWrapping(a) ==
    [app |-> [a EXCEPT !.import_cat_index =
                           (a.import_cat_index + 1) % Len(a.import_cat_descriptions),
                       !.import_cat_selected = 0,
                       !.import_cat_creating = FALSE,
                       !.import_cat_new_name = <<>>],
     advanced |-> TRUE]

\* App::advance_categorize: the new App, and whether the cursor moved
advance_categorize(a) ==
    IF a.import_cat_index + 1 < Len(a.import_cat_descriptions)
    THEN [app |-> [a EXCEPT !.import_cat_index = a.import_cat_index + 1,
                            !.import_cat_selected = 0,
                            !.import_cat_creating = FALSE,
                            !.import_cat_new_name = <<>>],
          advanced |-> TRUE]
    ELSE [app |-> a, advanced |-> FALSE]

\* App::refresh_categories
refresh_categories(a, cats, rules) ==
    [a EXCEPT !.categories = get_categories(cats), !.import_rules = get_import_rules(rules)]

\* scroll_down, scroll_up, scroll_to_top, scroll_to_bottom on the cursor
scroll_down(index, len) == IF index + 1 < len THEN index + 1 ELSE index
scroll_up(index) == IF index > 0 THEN index - 1 ELSE 0
scroll_to_top(index) == 0
scroll_to_bottom(index, len) == IF len > 0 THEN len - 1 ELSE index
\* the loops of Ctrl-d and Ctrl-u: page / 2 steps down or up
RECURSIVE ScrollDownTimes(_, _, _)
ScrollDownTimes(n, index, len) ==
    IF n = 0 THEN index ELSE ScrollDownTimes(n - 1, scroll_down(index, len), len)
RECURSIVE ScrollUpTimes(_, _)
ScrollUpTimes(n, index) ==
    IF n = 0 THEN index ELSE ScrollUpTimes(n - 1, scroll_up(index))

\* App::new, as far as the import goes
AppNew ==
    [import_step |-> "SelectFile", input_mode |-> "Normal", pending_action |-> None,
     import_rows |-> <<>>, import_profile |-> DefaultProfile, import_account_id |-> None,
     import_preview |-> <<>>, import_cat_descriptions |-> <<>>, import_cat_index |-> 0,
     import_cat_selected |-> 0, import_cat_creating |-> FALSE,
     import_cat_new_name |-> <<>>, categories |-> <<>>, import_rules |-> <<>>]

NoKey == [key |-> "none", result |-> Ok("none"), skipped |-> {}]

WizIdle ==
    /\ app = AppNew
    /\ db_categories = <<>>
    /\ db_rules = <<>>
    /\ running = FALSE
    /\ wiz = NoKey

CallIdle == call_in = <<>> /\ call_out = <<>>

NoCzCall == [op |-> "none", description |-> <<>>, result |-> None]

CzIdle ==
    /\ cz_rules = <<>>
    /\ cz_categorizer = None
    /\ cz_batch = <<>>
    /\ cz_call = NoCzCall

(***************************************************************************)
(* Hashing rows: two rows, each at a position of a file read for an        *)
(* account, are hashed as CsvImporter::parse hashes them.                   *)
(***************************************************************************)
MaxRowIndex == 1

HashAccounts == {1, 2}
HashDates == {<<"1", "/", "5", "/", "2", "4">>, <<"1", "/", "6", "/", "2", "4">>}
HashDescriptions == {<<"T", "e", "a">>, <<"t", "e", "a">>}
HashAmounts == {Decimal(TRUE, 450, 2), Decimal(TRUE, 45, 1)}

HashInputs ==
    [account_id : HashAccounts, row_index : 0..MaxRowIndex, date : HashDates,
     description : HashDescriptions, amount : HashAmounts]

HashIdle == hash_in = <<>> /\ hash_out = <<>>

HashInit ==
    /\ hash_in \in [1..2 -> HashInputs]
    /\ hash_out = [k \in 1..2 |-> None]
    /\ DbIdle
    /\ CzIdle
    /\ WizIdle
    /\ CallIdle

\* parse reaches line 113 for row k
HashRow(k) ==
    /\ hash_out[k] = None
    /\ hash_out' = [hash_out EXCEPT ![k] =
          Some(row_hash(hash_in[k].account_id, hash_in[k].row_index, hash_in[k].date,
                        hash_in[k].description, hash_in[k].amount))]
    /\ UNCHANGED <<hash_in, dbVars, czVars, wizVars, callVars>>

HashNext == \E k \in 1..2 : HashRow(k)

SpecHash == HashInit /\ [][HashNext]_vars

HashBothDone == hash_out[1] # None /\ hash_out[2] # None
HashSameContent ==
    /\ hash_in[1].date = hash_in[2].date
    /\ hash_in[1].description = hash_in[2].description
    /\ hash_in[1].amount = hash_in[2].amount

\* C2: the dedup hash is a function of (account_id, row_index, date,
\* description, amount): equal tuples give equal hashes, and two rows with the
\* same date, description and amount get different hashes when their positions
\* differ or their accounts differ.
C2_HashCoversPositionAndAccount ==
    HashBothDone =>
        /\ hash_in[1] = hash_in[2] => hash_out[1] = hash_out[2]
        /\ (HashSameContent
            /\ (hash_in[1].row_index # hash_in[2].row_index
                \/ hash_in[1].account_id # hash_in[2].account_id))
           => hash_out[1] # hash_out[2]

(***************************************************************************)
(* The ledger under repeated imports: a file is parsed for an account and   *)
(* the batch inserted (cli_import, commit_import), or a batch built         *)
(* elsewhere is inserted.                                                    *)
(***************************************************************************)
MaxRows == 2
MaxBatch == 2
MaxTable == 4

DateA == <<"1", "/", "5", "/", "2", "4">>
DescTea == <<"T", "e", "a">>
DescBus == <<"b", "u", "s">>
AmtA == <<"-", "4", ".", "5", "0">>

RowTea == <<DateA, DescTea, AmtA>>
RowBus == <<DateA, DescBus, AmtA>>
RowBadAmount == <<DateA, DescTea, <<"x">>>>
DbRows == {RowTea, RowBus, RowBadAmount}
DbAccounts == {1, 2}

SeqsUpTo(S, n) == UNION {[1..k -> S] : k \in 0..n}
DbFiles == SeqsUpTo(DbRows, MaxRows)

\* a manually built transaction, without import hash, and one with a fixed hash
ManualTxn == Transaction(1, <<"2", "0", "2", "4", "-", "0", "1", "-", "1", "5">>,
                         <<"M">>, Decimal(TRUE, 1000, 2), <<>>)
HashedTxn == Transaction(1, <<"2", "0", "2", "4", "-", "0", "1", "-", "1", "5">>,
                         <<"C">>, Decimal(TRUE, 450, 2), <<"u", "h">>)
DbBatches == SeqsUpTo({ManualTxn, HashedTxn}, MaxBatch) \ {<<>>}

\* what parse returns for each file and account (parse is a pure function of
\* its arguments; the table saves computing it again in every state)
DbParsedTable ==
    {<<file, account_id, parse(file, DefaultProfile, account_id)>> :
        file \in DbFiles, account_id \in DbAccounts}
DbParsed(file, account_id) ==
    (CHOOSE t \in DbParsedTable : t[1] = file /\ t[2] = account_id)[3]

DbInit == DbIdle /\ HashIdle /\ CzIdle /\ WizIdle /\ CallIdle

\* the call returned Ok(count), or failed and rolled back (the transaction is
\* dropped without commit)
DbInsert(op, file, account_id, batch, repeat, storage_ok) ==
    LET r == insert_transactions_batch(db_transactions, batch) IN
    /\ Len(db_transactions) + Len(batch) <= MaxTable
    /\ IF storage_ok
       THEN /\ db_transactions' = r.table
            /\ db_call' = [op |-> op, file |-> file, account_id |-> account_id,
                           batch |-> batch, repeat |-> repeat, result |-> Ok(r.count)]
       ELSE /\ db_transactions' = db_transactions
            /\ db_call' = [op |-> op, file |-> file, account_id |-> account_id,
                           batch |-> batch, repeat |-> FALSE, result |-> Err("storage")]

\* parse the file for the account and insert the batch
DbImport(file, account_id, storage_ok) ==
    LET parsed == DbParsed(file, account_id)
        repeat == /\ db_call.op = "import" /\ db_call.result.ok
                  /\ db_call.file = file /\ db_call.account_id = account_id
    IN  /\ IF parsed.ok
           THEN DbInsert("import", file, account_id, parsed.val, repeat, storage_ok)
           ELSE /\ db_call' = [op |-> "import", file |-> file, account_id |-> account_id,
                               batch |-> <<>>, repeat |-> FALSE, result |-> parsed]
                /\ UNCHANGED db_transactions
        /\ UNCHANGED <<hashVars, czVars, wizVars, callVars>>

\* insert a batch that was not parsed from a file
DbInsertBatch(batch, storage_ok) ==
    /\ DbInsert("insert", <<>>, 0, batch, FALSE, storage_ok)
    /\ UNCHANGED <<hashVars, czVars, wizVars, callVars>>

DbNext ==
    \/ \E file \in DbFiles, a \in DbAccounts, ok \in BOOLEAN : DbImport(file, a, ok)
    \/ \E batch \in DbBatches, ok \in BOOLEAN : DbInsertBatch(batch, ok)

SpecDb == DbInit /\ [][DbNext]_vars

\* C1: a file imported twice in a row into the same account: the second
\* insert_transactions_batch call inserts 0 transactions and leaves the stored
\* transactions as the first call left them.
C1_ReimportIdempotent ==
    [][(/\ db_call.op = "import" /\ db_call.result.ok
        /\ db_call'.op = "import" /\ db_call'.result.ok
        /\ db_call'.file = db_call.file
        /\ db_call'.account_id = db_call.account_id)
       => (db_call'.result.val = 0 /\ db_transactions' = db_transactions)]_vars

\* a second import of a file with rows has run, after a first that stored them
C1_Witness ==
    /\ db_call.op = "import" /\ db_call.repeat /\ db_call.result.ok
    /\ Len(db_call.batch) = 2
    /\ \A i \in 1..2 : HashExists(db_transactions, db_call.batch[i].import_hash)

EmptyHashed(txns) == SelectSeq(txns, LAMBDA t : t.import_hash = <<>>)

\* C3: no two stored transactions share a non-empty import_hash, and a call
\* that returns inserts every transaction of its batch that has an empty
\* import_hash, whatever is stored.
C3_HashUniqueEmptyNeverDeduped ==
    [][/\ \A i, j \in 1..Len(db_transactions') :
            (i # j /\ db_transactions'[i].import_hash # <<>>)
            => db_transactions'[i].import_hash # db_transactions'[j].import_hash
       /\ db_call'.result.ok
          => EmptyHashed(db_transactions')
             = EmptyHashed(db_transactions) \o EmptyHashed(db_call'.batch)]_vars

\* a batch with two transactions of the same non-empty hash and one with two
\* empty-hash transactions have both been submitted to a ledger holding them
C3_Witness ==
    /\ db_call.op = "insert" /\ db_call.result.ok
    /\ db_call.batch = <<ManualTxn, ManualTxn>>
    /\ Len(EmptyHashed(db_transactions)) >= 3
    /\ HashExists(db_transactions, HashedTxn.import_hash)

(***************************************************************************)
(* Categorizing descriptions: a categorizer is built from a rule list and   *)
(* asked for the category of descriptions (cli_import, ImportCommit).       *)
(***************************************************************************)
MaxRules == 2
MaxDescLen == 2

CzRules ==
    {new_contains(<<"b">>, 1), new_contains(<<"A">>, 2), new_contains(<<"a", "B">>, 2),
     new_regex(<<"A">>, 1), new_regex(<<"^", "b">>, 2), new_regex(<<"a", ".">>, 1),
     new_regex(<<"[", "a">>, 1), new_regex(<<"[", "a", "b", "]">>, 2)}
CzRuleLists == SeqsUpTo(CzRules, MaxRules)
CzDescriptions == SeqsUpTo({"a", "A", "b"}, MaxDescLen)

CzInit ==
    /\ cz_rules \in CzRuleLists
    /\ cz_categorizer = None
    /\ cz_batch = <<>>
    /\ cz_call = NoCzCall
    /\ HashIdle /\ DbIdle /\ WizIdle /\ CallIdle

\* let categorizer = Categorizer::new(&rules)
CzNew ==
    /\ cz_categorizer = None
    /\ cz_categorizer' = Some(Categorizer_new(cz_rules))
    /\ cz_call' = [op |-> "new", description |-> <<>>, result |-> None]
    /\ UNCHANGED <<cz_rules, cz_batch, hashVars, dbVars, wizVars, callVars>>

\* categorizer.categorize(description)
CzCategorize(description) ==
    /\ cz_categorizer # None
    /\ cz_call' = [op |-> "categorize", description |-> description,
                   result |-> categorize(Unwrap(cz_categorizer), description)]
    /\ UNCHANGED <<cz_rules, cz_categorizer, cz_batch, hashVars, dbVars, wizVars, callVars>>

CzNext == CzNew \/ \E description \in CzDescriptions : CzCategorize(description)

SpecCategorize == CzInit /\ [][CzNext]_vars

\* what the rules are specified to match: a contains rule when the lower-cased
\* description contains its lower-cased pattern, a regex rule when its pattern
\* compiles and matches the description
RuleFires(r, description) ==
    IF r.is_regex
    THEN RegexNew(r.pattern).ok /\ is_match(RegexNew(r.pattern).val, description)
    ELSE contains(to_lowercase(description), to_lowercase(r.pattern))
Firing(rules, description) == {i \in 1..Len(rules) : RuleFires(rules[i], description)}
FirstFiring(rules, description) ==
    LET hits == Firing(rules, description) IN
    IF hits = {} THEN None
    ELSE Some(rules[CHOOSE i \in hits : \A j \in hits : i <= j].category_id)

\* C4: categorize(description) returns the category of the first rule, in the
\* order of the list handed to Categorizer::new, that matches the description,
\* and None when no rule matches.
C4_FirstMatchWins ==
    cz_call.op = "categorize"
    => cz_call.result = FirstFiring(cz_rules, cz_call.description)

\* 'b'->1 then 'aB'->2 were handed over and 'Ab', which both match, got 1
C4_Witness ==
    /\ cz_call.op = "categorize"
    /\ cz_rules = <<new_contains(<<"b">>, 1), new_contains(<<"a", "B">>, 2)>>
    /\ cz_call.description = <<"A", "b">>
    /\ cz_call.result = Some(1)

AllRegex(rules) == \A i \in 1..Len(rules) : rules[i].is_regex
AllContains(rules) == \A i \in 1..Len(rules) : ~rules[i].is_regex

\* C5: regex rules match case-insensitively: two descriptions that differ only
\* in letter case get the same category from a categorizer of regex rules.
C5_RegexCaseInsensitive ==
    [][(/\ AllRegex(cz_rules)
        /\ cz_call.op = "categorize" /\ cz_call'.op = "categorize"
        /\ to_lowercase(cz_call.description) = to_lowercase(cz_call'.description))
       => cz_call'.result = cz_call.result]_vars

\* C6: a contains rule matches exactly when the lower-cased description
\* contains the lower-cased pattern: a categorizer of contains rules answers
\* with the first rule whose lower-cased pattern occurs in the lower-cased
\* description, and descriptions that differ only in letter case get the same
\* answer.
C6_ContainsCaseInsensitive ==
    [][(AllContains(cz_rules) /\ cz_call'.op = "categorize")
       => /\ cz_call'.result # None
             <=> \E i \in 1..Len(cz_rules) :
                    contains(to_lowercase(cz_call'.description),
                             to_lowercase(cz_rules[i].pattern))
          /\ (/\ cz_call.op = "categorize"
              /\ to_lowercase(cz_call.description) = to_lowercase(cz_call'.description))
             => cz_call'.result = cz_call.result]_vars

\* the contains rule 'aB' alone matched 'Ab'
C6_Witness ==
    /\ cz_rules = <<new_contains(<<"a", "B">>, 2)>>
    /\ cz_call.op = "categorize"
    /\ cz_call.description = <<"A", "b">>
    /\ cz_call.result = Some(2)

Invalid(r) == r.is_regex /\ ~RegexNew(r.pattern).ok
ValidRules(rules) == SelectSeq(rules, LAMBDA r : ~Invalid(r))

\* C7: building a categorizer from a list with a regex rule that does not
\* compile returns a categorizer and a non-empty list of the patterns that
\* failed; the invalid rule matches nothing and the other rules answer as if it
\* were not in the list.
C7_InvalidRegexReported ==
    (cz_categorizer # None /\ \E i \in 1..Len(cz_rules) : Invalid(cz_rules[i]))
    => /\ "bad_patterns" \in DOMAIN Unwrap(cz_categorizer)
       /\ Unwrap(cz_categorizer).bad_patterns # <<>>
       /\ cz_call.op = "categorize"
          => cz_call.result
             = categorize(Categorizer_new(ValidRules(cz_rules)), cz_call.description)

(***************************************************************************)
(* Categorizing a batch: the parsed transactions, some renamed or already   *)
(* categorized, go through categorize_batch (cli_import, ImportCommit).     *)
(***************************************************************************)
MaxTxns == 2

BatchRules ==
    {new_contains(<<"a">>, 1), new_contains(<<"b">>, 2), new_regex(<<"^", "b">>, 1)}
BatchRuleLists == SeqsUpTo(BatchRules, MaxRules)

\* a transaction of a batch: description may have been edited since the import
BatchTxn(description, original_description, category_id) ==
    [Transaction(1, <<"2", "0", "2", "4", "-", "0", "1", "-", "1", "5">>,
                 original_description, Decimal(TRUE, 1000, 2), <<>>)
        EXCEPT !.description = description, !.category_id = category_id]
BatchTxns ==
    {BatchTxn(d, o, c) : d \in {<<"a">>, <<"b">>}, o \in {<<"a">>, <<"b">>},
                         c \in {None, Some(3)}}
Batches == SeqsUpTo(BatchTxns, MaxTxns)

BatchInit ==
    /\ cz_rules \in BatchRuleLists
    /\ cz_categorizer = None
    /\ cz_batch \in Batches
    /\ cz_call = NoCzCall
    /\ HashIdle /\ DbIdle /\ WizIdle /\ CallIdle

\* let categorizer = Categorizer::new(&rules)
BatchNew ==
    /\ cz_categorizer = None
    /\ cz_categorizer' = Some(Categorizer_new(cz_rules))
    /\ cz_call' = [op |-> "new", description |-> <<>>, result |-> None]
    /\ UNCHANGED <<cz_rules, cz_batch, hashVars, dbVars, wizVars, callVars>>

\* categorizer.categorize_batch(&mut transactions)
BatchCategorize ==
    /\ cz_categorizer # None
    /\ cz_batch' = categorize_batch(Unwrap(cz_categorizer), cz_batch)
    /\ cz_call' = [op |-> "categorize_batch", description |-> <<>>, result |-> None,
                   repeat |-> cz_call.op = "categorize_batch"]
    /\ UNCHANGED <<cz_rules, cz_categorizer, hashVars, dbVars, wizVars, callVars>>

BatchNext == BatchNew \/ BatchCategorize

SpecBatch == BatchInit /\ [][BatchNext]_vars

\* C8: categorize_batch gives every transaction without category the category
\* of the first rule matching its original_description (none when no rule
\* matches), whatever its description field holds, leaves every transaction
\* that has a category as it is, and a second application changes nothing.
C8_BatchFrame ==
    [][cz_call'.op = "categorize_batch"
       => /\ Len(cz_batch') = Len(cz_batch)
          /\ \A i \in 1..Len(cz_batch) :
                IF cz_batch[i].category_id = None
                THEN cz_batch'[i] = [cz_batch[i] EXCEPT !.category_id =
                         FirstFiring(cz_rules, cz_batch[i].original_description)]
                ELSE cz_batch'[i] = cz_batch[i]
          /\ cz_call.op = "categorize_batch" => cz_batch' = cz_batch]_vars

\* categorize_batch ran twice on a batch with a renamed transaction, whose
\* description and original_description match different rules, and a
\* transaction that had a category a rule would have replaced
C8_Witness ==
    /\ cz_call.op = "categorize_batch" /\ cz_call.repeat
    /\ cz_rules = <<new_contains(<<"a">>, 1), new_contains(<<"b">>, 2)>>
    /\ cz_batch = <<[BatchTxn(<<"a">>, <<"b">>, None) EXCEPT !.category_id = Some(2)],
                    BatchTxn(<<"a">>, <<"a">>, Some(3))>>

(***************************************************************************)
(* The interactive import: from the account selection over the preview and  *)
(* its confirmation into the categorization wizard and to the commit        *)
(* (run/tui.rs).  A key is handled at a time; a handler that returns an     *)
(* error ends run_app.  A storage write may fail; reads do not.             *)
(***************************************************************************)
MaxWizRows == 3
MaxNameLen == 2
MaxHalfPage == 1

WizFiles == SeqsUpTo({RowTea, RowBus}, MaxWizRows) \union {<<RowTea, RowBadAmount>>}
WizParsedTable == {<<file, parse(file, DefaultProfile, 1)>> : file \in WizFiles}
WizParsed(file) == (CHOOSE t \in WizParsedTable : t[1] = file)[2]

CatG == [id |-> Some(1), name |-> <<"g">>]
CatE == [id |-> Some(2), name |-> <<"e">>]
RuleTea == [new_contains(<<"t", "e", "a">>, 1) EXCEPT !.id = Some(1)]
WizLedgers ==
    {[categories |-> <<>>, rules |-> <<>>],
     [categories |-> <<CatG>>, rules |-> <<>>],
     [categories |-> <<CatG, CatE>>, rules |-> <<>>],
     [categories |-> <<CatG, CatE>>, rules |-> <<RuleTea>>]}
NameChars == {"f", " "}
Failures == {"none", "category", "rule", "commit"}

\* the file is loaded and mapped, the accounts are listed
Init ==
    /\ \E file \in WizFiles, ledger \in WizLedgers :
          /\ db_categories = ledger.categories
          /\ db_rules = ledger.rules
          /\ app = refresh_categories(
                      [AppNew EXCEPT !.import_step = "SelectAccount", !.import_rows = file],
                      ledger.categories, ledger.rules)
    /\ running = TRUE
    /\ wiz = NoKey
    /\ HashIdle /\ DbIdle /\ CzIdle /\ CallIdle

\* what a handler leaves behind: its result, the App and the tables
Outcome(res, a, cats, rules, table, call) ==
    [res |-> res, app |-> a, categories |-> cats, rules |-> rules,
     table |-> table, call |-> call]

Handled(key, out, skipped) ==
    /\ app' = out.app
    /\ db_categories' = out.categories
    /\ db_rules' = out.rules
    /\ db_transactions' = out.table
    /\ db_call' = out.call
    /\ running' = out.res.ok
    /\ wiz' = [key |-> key, result |-> out.res, skipped |-> skipped]
    /\ UNCHANGED <<hashVars, czVars, callVars>>

\* a handler that touches the App only
HandledApp(key, a, skipped) ==
    Handled(key, Outcome(Ok("handled"), a, db_categories, db_rules,
                         db_transactions, db_call), skipped)

\* commit_import leaving the import step as it is
CommitStayingInStep(a, cats, rules, table, call, fail) ==
    IF fail = "commit"
    THEN Outcome(Err("storage"), a, cats, rules, table,
                 [op |-> "commit", file |-> a.import_rows, account_id |-> 1,
                  batch |-> a.import_preview, repeat |-> FALSE, result |-> Err("storage")])
    ELSE LET r == insert_transactions_batch(table, a.import_preview) IN
         Outcome(Ok("committed"), refresh_categories(a, cats, rules), cats, rules, r.table,
                 [op |-> "commit", file |-> a.import_rows, account_id |-> 1,
                  batch |-> a.import_preview, repeat |-> FALSE, result |-> Ok(r.count)])

\* commit_import
commit_import(a, cats, rules, table, call, fail) ==
    IF fail = "commit"
    THEN Outcome(Err("storage"), a, cats, rules, table,
                 [op |-> "commit", file |-> a.import_rows, account_id |-> 1,
                  batch |-> a.import_preview, repeat |-> FALSE, result |-> Err("storage")])
    ELSE LET r == insert_transactions_batch(table, a.import_preview) IN
         Outcome(Ok("committed"),
                 refresh_categories([a EXCEPT !.import_step = "Complete"], cats, rules),
                 cats, rules, r.table,
                 [op |-> "commit", file |-> a.import_rows, account_id |-> 1,
                  batch |-> a.import_preview, repeat |-> FALSE, result |-> Ok(r.count)])

\* if !app.advance_categorize() { commit_import(app, db)?; }
AdvanceOrCommit(a, cats, rules, table, call, fail) ==
    LET adv == advance_categorize(a) IN
    IF adv.advanced THEN Outcome(Ok("advanced"), adv.app, cats, rules, table, call)
    ELSE commit_import(a, cats, rules, table, call, fail)

InImport(step) == running /\ app.input_mode = "Normal" /\ app.import_step = step
Picking == InImport("Categorize") /\ ~app.import_cat_creating
Creating == InImport("Categorize") /\ app.import_cat_creating
CurrentDescription == app.import_cat_descriptions[app.import_cat_index + 1][1]

\* handle_select_account_input, Enter on an account: generate the preview
SelectAccountEnter ==
    /\ InImport("SelectAccount")
    /\ LET a == [app EXCEPT !.import_account_id = Some(1)]
           r == generate_import_preview(a, WizParsed(app.import_rows))
       IN  HandledApp("SelectAccountEnter", IF r.ok THEN r.val ELSE a, wiz.skipped)

\* handle_enter at the preview: ask for confirmation
PreviewEnter ==
    /\ InImport("Preview")
    /\ HandledApp("PreviewEnter", [app EXCEPT !.pending_action = Some("ImportCommit"),
                                              !.input_mode = "Confirm"], wiz.skipped)

\* handle_escape at the preview
PreviewEsc ==
    /\ InImport("Preview")
    /\ HandledApp("PreviewEsc", [app EXCEPT !.import_step = "SelectAccount"], wiz.skipped)

\* handle_confirm_input, 'n' or Esc
ConfirmNo ==
    /\ running /\ app.input_mode = "Confirm"
    /\ HandledApp("ConfirmNo", [app EXCEPT !.pending_action = None, !.input_mode = "Normal"],
                  wiz.skipped)

\* handle_confirm_input, 'y' on PendingAction::ImportCommit
ConfirmYes(fail) ==
    /\ running /\ app.input_mode = "Confirm" /\ app.pending_action = Some("ImportCommit")
    /\ fail \in {"none", "commit"}
    /\ LET taken == [app EXCEPT !.pending_action = None]
           rules == get_import_rules(db_rules)
           categorizer == Categorizer_new(rules)
           batch == categorize_batch(categorizer, taken.import_preview)
           prep  == prepare_categorize_step([taken EXCEPT !.import_preview = batch])
           out   == IF prep.entered
                    THEN Outcome(Ok("entered"), [prep.app EXCEPT !.import_step = "Categorize"],
                                 db_categories, db_rules, db_transactions, db_call)
                    ELSE commit_import(prep.app, db_categories, db_rules,
                                       db_transactions, db_call, fail)
       IN  /\ fail = "commit" => ~prep.entered
           /\ Handled("ConfirmYes",
                       IF out.res.ok
                       THEN [out EXCEPT !.app = [out.app EXCEPT !.input_mode = "Normal"]]
                       ELSE out, {})

\* handle_categorize_input while typing a name: a character
CreateChar(c) ==
    /\ Creating
    /\ Len(app.import_cat_new_name) < MaxNameLen
    /\ HandledApp("CreateChar", [app EXCEPT !.import_cat_new_name = Append(@, c)], wiz.skipped)

\* ... Backspace: drop the last character, or leave typing when there is none
CreateBackspace ==
    /\ Creating
    /\ HandledApp("CreateBackspace",
          IF app.import_cat_new_name = <<>>
          THEN [app EXCEPT !.import_cat_creating = FALSE]
          ELSE [app EXCEPT !.import_cat_new_name = SubSeq(@, 1, Len(@) - 1)],
          wiz.skipped)

\* ... Esc: leave typing
CreateEsc ==
    /\ Creating
    /\ HandledApp("CreateEsc", [app EXCEPT !.import_cat_creating = FALSE,
                                           !.import_cat_new_name = <<>>], wiz.skipped)

\* the rule stored when a category is given to the current description
StoreRule(rules, cats, cat_id, fail) ==
    IF fail = "rule" THEN Err("storage")
    ELSE insert_import_rule(rules, cats,
             new_contains(suggest_rule(CurrentDescription).val, cat_id))

\* ... Enter: create the category, store the rule, apply, advance or commit
CreateEnterOutcome(fail) ==
    LET name == trim(app.import_cat_new_name)
        here == Outcome(Ok("handled"), app, db_categories, db_rules, db_transactions, db_call)
    IN
    IF name = <<>> THEN here
    ELSE LET cat == IF fail = "category" THEN Err("storage")
                    ELSE insert_category(db_categories, name)
         IN
         IF ~cat.ok THEN [here EXCEPT !.res = cat]
         ELSE LET rule == StoreRule(db_rules, cat.val.table, cat.val.id, fail) IN
              IF ~rule.ok THEN [here EXCEPT !.res = rule, !.categories = cat.val.table]
              ELSE LET applied   == apply_category_to_current(app, cat.val.id)
                       refreshed == refresh_categories(applied, cat.val.table, rule.val.table)
                       typed     == [refreshed EXCEPT !.import_cat_creating = FALSE,
                                                      !.import_cat_new_name = <<>>]
                   IN  AdvanceOrCommit(typed, cat.val.table, rule.val.table,
                                       db_transactions, db_call, fail)

CreateEnter(fail) ==
    /\ Creating
    /\ Handled("CreateEnter", CreateEnterOutcome(fail), wiz.skipped)

\* handle_categorize_input while picking: j, k, g, G, Ctrl-d, Ctrl-u
Select(selected) == [app EXCEPT !.import_cat_selected = selected]
PickDown ==
    /\ Picking
    /\ HandledApp("PickDown",
          Select(scroll_down(app.import_cat_selected, Len(app.categories))), wiz.skipped)
PickUp ==
    /\ Picking
    /\ HandledApp("PickUp", Select(scroll_up(app.import_cat_selected)), wiz.skipped)
PickTop ==
    /\ Picking
    /\ HandledApp("PickTop", Select(scroll_to_top(app.import_cat_selected)), wiz.skipped)
PickBottom ==
    /\ Picking
    /\ HandledApp("PickBottom",
          Select(scroll_to_bottom(app.import_cat_selected, Len(app.categories))), wiz.skipped)
PickHalfPageDown(n) ==
    /\ Picking
    /\ HandledApp("PickHalfPageDown",
          Select(ScrollDownTimes(n, app.import_cat_selected, Len(app.categories))),
          wiz.skipped)
PickHalfPageUp(n) ==
    /\ Picking
    /\ HandledApp("PickHalfPageUp",
          Select(ScrollUpTimes(n, app.import_cat_selected)), wiz.skipped)

\* ... any other character: jump to the first category whose name starts with it
PickJump(c) ==
    LET hits == {i \in 1..Len(app.categories) :
                    /\ app.categories[i].name # <<>>
                    /\ ToLowerChar(app.categories[i].name[1]) = ToLowerChar(c)}
    IN  /\ Picking
        /\ HandledApp("PickJump",
              IF hits = {} THEN app
              ELSE Select((CHOOSE i \in hits : \A j \in hits : i <= j) - 1), wiz.skipped)

\* 's' reading the categories and rules from storage again
PickSkipRefreshing(fail) ==
    /\ Picking
    /\ fail \in {"none", "commit"}
    /\ Handled("PickSkip",
               AdvanceOrCommit(refresh_categories(app, db_categories, db_rules),
                               db_categories, db_rules, db_transactions, db_call, fail),
               wiz.skipped \union {CurrentDescription})

\* ... 's': skip the current description
PickSkip(fail) ==
    /\ Picking
    /\ fail \in {"none", "commit"}
    /\ Handled("PickSkip", AdvanceOrCommit(app, db_categories, db_rules, db_transactions,
                                           db_call, fail),
               wiz.skipped \union {CurrentDescription})

\* ... 'S': skip all that is left
PickSkipAll(fail) ==
    /\ Picking
    /\ fail \in {"none", "commit"}
    /\ Handled("PickSkipAll", commit_import(app, db_categories, db_rules, db_transactions,
                                            db_call, fail), wiz.skipped)

\* ... 'n': start typing the name of a new category
PickNew ==
    /\ Picking
    /\ HandledApp("PickNew", [app EXCEPT !.import_cat_creating = TRUE,
                                         !.import_cat_new_name = <<>>], wiz.skipped)

\* ... Enter: give the selected category, store the rule, advance or commit
PickEnterOutcome(fail) ==
    LET here == Outcome(Ok("handled"), app, db_categories, db_rules, db_transactions, db_call)
    IN
    IF app.import_cat_selected >= Len(app.categories) THEN here
    ELSE LET cat == app.categories[app.import_cat_selected + 1] IN
         IF cat.id = None THEN here
         ELSE LET rule == StoreRule(db_rules, db_categories, Unwrap(cat.id), fail) IN
              IF ~rule.ok THEN [here EXCEPT !.res = rule]
              ELSE LET refreshed == refresh_categories(app, db_categories, rule.val.table)
                       applied   == apply_category_to_current(refreshed, Unwrap(cat.id))
                   IN  AdvanceOrCommit(applied, db_categories, rule.val.table,
                                       db_transactions, db_call, fail)

PickEnter(fail) ==
    /\ Picking
    /\ Handled("PickEnter", PickEnterOutcome(fail), wiz.skipped)

\* Esc committing the batch as 'S' does
PickEscCommitting ==
    /\ Picking
    /\ Handled("PickEsc", commit_import(app, db_categories, db_rules, db_transactions,
                                        db_call, "none"), wiz.skipped)

\* Esc dropping the categories of the batch with the rest of the session
PickEscClearing ==
    /\ Picking
    /\ HandledApp("PickEsc",
          [app EXCEPT !.import_step = "Preview",
                      !.import_preview = [i \in 1..Len(@) |-> [@[i] EXCEPT !.category_id = None]]],
          wiz.skipped)

\* ... Esc: back to the preview
PickEsc ==
    /\ Picking
    /\ HandledApp("PickEsc", [app EXCEPT !.import_step = "Preview"], wiz.skipped)

Next ==
    \/ SelectAccountEnter
    \/ PreviewEnter
    \/ PreviewEsc
    \/ ConfirmNo
    \/ \E fail \in Failures : ConfirmYes(fail)
    \/ \E c \in NameChars : CreateChar(c)
    \/ CreateBackspace
    \/ CreateEsc
    \/ \E fail \in Failures : CreateEnter(fail)
    \/ PickDown
    \/ PickUp
    \/ PickTop
    \/ PickBottom
    \/ \E n \in 1..MaxHalfPage : PickHalfPageDown(n)
    \/ \E n \in 1..MaxHalfPage : PickHalfPageUp(n)
    \/ \E c \in {"e", "f"} : PickJump(c)
    \/ \E fail \in Failures : PickSkip(fail)
    \/ \E fail \in Failures : PickSkipAll(fail)
    \/ PickNew
    \/ \E fail \in Failures : PickEnter(fail)
    \/ PickEsc

Spec == Init /\ [][Next]_vars

WalkedToEnd ==
    /\ db_call.op = "commit" /\ db_call.result.ok
    /\ wiz.key \in {"PickEnter", "CreateEnter", "PickSkip"}

\* C9: when the wizard ends at the end of its list, each description having
\* been given a category or skipped with 's', every transaction of the batch
\* committed has a category or has an original_description that was skipped.
C9_WizardCoverage ==
    WalkedToEnd
    => \A i \in 1..Len(db_call.batch) :
          \/ db_call.batch[i].category_id # None
          \/ db_call.batch[i].original_description \in wiz.skipped

\* a batch of three was committed at the end of the list, two transactions of
\* one description categorized in the wizard and one of a skipped description
C9_Witness ==
    /\ WalkedToEnd
    /\ Len(db_call.batch) = 3
    /\ db_rules # <<>>
    /\ Cardinality({i \in 1..3 : db_call.batch[i].category_id # None}) = 2
    /\ \E i \in 1..3 : /\ db_call.batch[i].category_id = None
                       /\ db_call.batch[i].original_description \in wiz.skipped

\* the category the handler assigns: the one selected, or the one just stored
\* under the typed name
Assigned ==
    IF wiz'.key = "PickEnter" THEN app.categories[app.import_cat_selected + 1].id
    ELSE (CHOOSE cat \in {db_categories'[k] : k \in 1..Len(db_categories')} :
             cat.name = trim(app.import_cat_new_name)).id

\* C10: an assignment to the current description d, of the selected category
\* or of one created from the typed name, gives that category to the batch
\* transactions whose original_description is d and that have none, changes no
\* other transaction, and moves the cursor to the next description, or, on the
\* last description, commits the batch.
C10_AssignFrame ==
    [][(/\ wiz'.key \in {"PickEnter", "CreateEnter"}
        /\ wiz'.result.ok /\ wiz'.result.val # "handled")
       => /\ Len(app'.import_preview) = Len(app.import_preview)
          /\ \A i \in 1..Len(app.import_preview) :
                IF /\ app.import_preview[i].original_description = CurrentDescription
                   /\ app.import_preview[i].category_id = None
                THEN app'.import_preview[i]
                     = [app.import_preview[i] EXCEPT !.category_id = Assigned]
                ELSE app'.import_preview[i] = app.import_preview[i]
          /\ IF app.import_cat_index + 1 < Len(app.import_cat_descriptions)
             THEN /\ app'.import_step = "Categorize"
                  /\ app'.import_cat_index = app.import_cat_index + 1
                  /\ app'.import_cat_descriptions = app.import_cat_descriptions
                  /\ db_transactions' = db_transactions
             ELSE /\ app'.import_step = "Complete"
                  /\ db_call'.op = "commit" /\ db_call'.batch = app'.import_preview
                  /\ db_transactions'
                     = insert_transactions_batch(db_transactions, app'.import_preview).table
      ]_vars

\* a category created from a typed name was given to the two transactions of
\* the first description of three, and the cursor is on the second description
C10_Witness ==
    /\ wiz.key = "CreateEnter" /\ wiz.result = Ok("advanced")
    /\ app.import_step = "Categorize" /\ app.import_cat_index = 1
    /\ Len(app.import_preview) = 3
    /\ app.import_preview[1].category_id # None
    /\ app.import_preview[1].category_id = app.import_preview[3].category_id
    /\ app.import_preview[2].category_id = None

Uncategorized(txns) == {i \in 1..Len(txns) : txns[i].category_id = None}
FirstOf(txns, desc) ==
    CHOOSE i \in Uncategorized(txns) :
        /\ txns[i].original_description = desc
        /\ \A j \in Uncategorized(txns) : txns[j].original_description = desc => i <= j

\* C11: the wizard list holds the original_description of every uncategorized
\* transaction of the batch exactly once, in order of first occurrence, each
\* with the number of uncategorized transactions of that description; a
\* description without uncategorized transaction is not in it.
C11_WizardList ==
    (wiz.key = "ConfirmYes" /\ wiz.result.ok)
    => LET txns == app.import_preview
           list == app.import_cat_descriptions
       IN  /\ \A i \in Uncategorized(txns) :
                 \E k \in 1..Len(list) : list[k][1] = txns[i].original_description
           /\ \A k \in 1..Len(list) :
                 /\ \E i \in Uncategorized(txns) : txns[i].original_description = list[k][1]
                 /\ list[k][2] = Cardinality({i \in Uncategorized(txns) :
                                      txns[i].original_description = list[k][1]})
           /\ \A k, l \in 1..Len(list) :
                 k < l => /\ list[k][1] # list[l][1]
                          /\ FirstOf(txns, list[k][1]) < FirstOf(txns, list[l][1])

\* bus, Tea, bus was confirmed with no rule matching: the list is bus (2), Tea (1)
C11_Witness ==
    /\ wiz.key = "ConfirmYes" /\ wiz.result = Ok("entered")
    /\ app.import_cat_descriptions = <<<<DescBus, 2>>, <<DescTea, 1>>>>
    /\ Len(app.import_preview) = 3

\* C12: 's' moves the cursor to the next description, or commits the batch on
\* the last one, changes no category_id and stores no rule and no category;
\* the transactions of a skipped description are uncategorized in the batch
\* committed.
C12_SkipOneFrame ==
    [][/\ (wiz'.key = "PickSkip" /\ wiz'.result.ok)
          => /\ app'.import_preview = app.import_preview
             /\ db_rules' = db_rules /\ db_categories' = db_categories
             /\ IF app.import_cat_index + 1 < Len(app.import_cat_descriptions)
                THEN /\ app'.import_step = "Categorize"
                     /\ app'.import_cat_index = app.import_cat_index + 1
                     /\ db_transactions' = db_transactions /\ db_call' = db_call
                ELSE /\ app'.import_step = "Complete"
                     /\ db_call'.op = "commit" /\ db_call'.batch = app.import_preview
       /\ wiz'.result = Ok("committed")
          => \A i \in 1..Len(db_call'.batch) :
                db_call'.batch[i].original_description \in wiz'.skipped
                => db_call'.batch[i].category_id = None]_vars

\* the first description of two was skipped, the second given a category, and
\* the batch committed with the skipped transaction uncategorized
C12_Witness ==
    /\ wiz.key = "PickEnter" /\ wiz.result = Ok("committed")
    /\ wiz.skipped = {db_call.batch[1].original_description}
    /\ db_call.batch[1].category_id = None
    /\ \E i \in 2..Len(db_call.batch) : db_call.batch[i].category_id # None

\* C13: 'S' at any cursor position commits the batch in that action: the
\* import step is Complete, the batch committed is the batch as it was, the
\* transactions of the current and the remaining descriptions uncategorized
\* and the categories assigned before kept.
C13_SkipAllCommits ==
    [][(wiz'.key = "PickSkipAll" /\ wiz'.result.ok)
       => /\ app'.import_step = "Complete"
          /\ db_call'.op = "commit" /\ db_call'.result.ok
          /\ db_call'.batch = app.import_preview
          /\ app'.import_preview = app.import_preview
          /\ db_transactions'
             = insert_transactions_batch(db_transactions, app.import_preview).table
          /\ \A k \in (app.import_cat_index + 1)..Len(app.import_cat_descriptions) :
                \A i \in 1..Len(db_call'.batch) :
                   db_call'.batch[i].original_description = app.import_cat_descriptions[k][1]
                   => db_call'.batch[i].category_id = None]_vars

\* 'S' was pressed on the second description, after a category was given to
\* the first in the wizard
C13_Witness ==
    /\ wiz.key = "PickSkipAll" /\ wiz.result = Ok("committed")
    /\ app.import_step = "Complete" /\ app.import_cat_index = 1
    /\ db_rules # <<>>
    /\ \E i, j \in 1..Len(db_call.batch) :
          /\ db_call.batch[i].category_id # None
          /\ db_call.batch[j].category_id = None

\* C14: backing out of the Categorize step with Esc hands the batch, with the
\* categorization it has, to storage for deduplicated insertion, as the end of
\* the list and 'S' do.
C14_AbandonCommits ==
    [][wiz'.key = "PickEsc"
       => /\ db_call'.op = "commit" /\ db_call'.batch = app.import_preview
          /\ db_transactions'
             = insert_transactions_batch(db_transactions, app.import_preview).table]_vars

\* C14, as the code has it: Esc leads back to the preview and hands nothing to
\* storage; the batch is committed by a later confirmation only.
C14_AbandonReturnsToPreview ==
    [][wiz'.key = "PickEsc"
       => /\ app'.import_step = "Preview" /\ app'.input_mode = "Normal"
          /\ db_transactions' = db_transactions /\ db_call' = db_call
          /\ running']_vars

\* Esc was pressed in the wizard: the preview is shown and nothing was stored
C14_Witness ==
    /\ wiz.key = "PickEsc"
    /\ app.import_step = "Preview"
    /\ db_call.op # "commit" /\ db_transactions = <<>>
    /\ app.import_preview # <<>>

\* C15: Esc while picking changes no transaction of the batch: the categories
\* given before in the session stay.
C15_AbandonKeepsBatch ==
    [][wiz'.key = "PickEsc" => app'.import_preview = app.import_preview]_vars

\* Esc was pressed on the second description, the first having got a category
C15_Witness ==
    /\ wiz.key = "PickEsc"
    /\ app.import_cat_index = 1
    /\ \E i, j \in 1..Len(app.import_preview) :
          /\ app.import_preview[i].category_id # None
          /\ app.import_preview[i].original_description = app.import_cat_descriptions[1][1]
          /\ app.import_preview[j].category_id = None

(***************************************************************************)
(* The rule the wizard stores for a description, and what bulk              *)
(* categorization makes of that description in a later import.              *)
(***************************************************************************)
MaxSuggestLen == 3

\* descriptions as parse leaves them: trimmed cells
SuggestDescriptions ==
    {d \in SeqsUpTo({"a", "B", "1", "#", "*", " "}, MaxSuggestLen) : trim(d) = d}
SuggestCategories == {1, 2}

OtherIdle == HashIdle /\ DbIdle /\ CzIdle /\ WizIdle

SuggestInit ==
    /\ call_in \in [description : SuggestDescriptions, category_id : SuggestCategories]
    /\ call_out = [rules |-> <<>>, later |-> None]
    /\ OtherIdle

\* the wizard's Enter on the description: suggest_rule, new_contains,
\* insert_import_rule
SuggestStore ==
    /\ call_out.rules = <<>>
    /\ LET pattern == suggest_rule(call_in.description)
           stored  == insert_import_rule(<<>>, <<[id |-> Some(call_in.category_id),
                                                   name |-> <<"c">>]>>,
                                         new_contains(pattern.val, call_in.category_id))
       IN  call_out' = [call_out EXCEPT !.rules = stored.val.table]
    /\ UNCHANGED <<call_in, hashVars, dbVars, czVars, wizVars>>

\* a later import: get_import_rules, Categorizer::new, categorize of the same
\* original description
SuggestLaterImport ==
    /\ call_out.rules # <<>> /\ call_out.later = None
    /\ call_out' = [call_out EXCEPT !.later =
          Some(categorize(Categorizer_new(get_import_rules(call_out.rules)),
                          call_in.description))]
    /\ UNCHANGED <<call_in, hashVars, dbVars, czVars, wizVars>>

SuggestNext == SuggestStore \/ SuggestLaterImport

SpecSuggest == SuggestInit /\ [][SuggestNext]_vars

\* C16: the contains rule stored for a description d the operator assigned a
\* category to (pattern suggest_rule(d)) matches d itself: a later import
\* categorizes a transaction of description d with that category.
C16_StoredRuleMatches ==
    call_out.later # None => Unwrap(call_out.later) = Some(call_in.category_id)


(***************************************************************************)
(* SpecParse: CsvImporter::parse called once on a file of rows              *)
(***************************************************************************)
MaxParseRows == 3
MaxSkipRows == 1

RowBadDate   == <<<<"x">>, DescBus, AmtA>>
RowBlankDate == <<<<" ">>, DescTea, AmtA>>
RowNoCells   == <<>>
ParseRows == {RowTea, RowBus, RowBadAmount, RowBadDate, RowBlankDate, RowNoCells}
ParseFiles == SeqsUpTo(ParseRows, MaxParseRows)
ParseProfiles == {[DefaultProfile EXCEPT !.skip_rows = k] : k \in 0..MaxSkipRows}

ParseInit ==
    /\ call_in \in [rows : ParseFiles, profile : ParseProfiles, account_id : {1}]
    /\ call_out = None
    /\ OtherIdle

ParseCall ==
    /\ call_out = None
    /\ call_out' = Some(parse(call_in.rows, call_in.profile, call_in.account_id))
    /\ UNCHANGED <<call_in, hashVars, dbVars, czVars, wizVars>>

ParseNext == ParseCall

SpecParse == ParseInit /\ [][ParseNext]_vars

\* the row of the file at 0-based index i, as parse reads its cells
DateOf(rows, profile, i) == Cell(rows[i + 1], profile.date_column)
RowParses(rows, profile, i) ==
    /\ parse_date(DateOf(rows, profile, i), profile.date_format).ok
    /\ parse_amount(rows[i + 1], profile).ok

\* 0-based indices of the rows parse reads (at or after skip_rows, date cell
\* not blank) that have an unparseable date or a non-numeric amount
Offending(rows, profile) ==
    {i \in profile.skip_rows..(Len(rows) - 1) :
        DateOf(rows, profile, i) # <<>> /\ ~RowParses(rows, profile, i)}

\* C17: parse is all-or-nothing: if some row it reads has a date matching no
\* format or a non-numeric amount, the call returns an error and no
\* transactions, and the error names the 1-based number of the first such
\* row; otherwise it returns transactions.
C17_ParseAllOrNothing ==
    call_out # None =>
        LET r   == Unwrap(call_out)
            bad == Offending(call_in.rows, call_in.profile)
        IN  IF bad = {} THEN r.ok
            ELSE /\ ~r.ok
                 /\ "val" \notin DOMAIN r
                 /\ r.err[1] = "Row"
                 /\ r.err[2] = 1 + CHOOSE i \in bad : \A j \in bad : i <= j

\* a file whose first row parses and whose second does not: the error names row 2
C17_Witness ==
    /\ call_out # None
    /\ call_in.profile.skip_rows = 0
    /\ Len(call_in.rows) >= 2
    /\ RowParses(call_in.rows, call_in.profile, 0)
    /\ DateOf(call_in.rows, call_in.profile, 0) # <<>>
    /\ ~Unwrap(call_out).ok
    /\ Unwrap(call_out).err[2] = 2

\* the rows parse turns into transactions: those at index >= skip_rows whose
\* date cell is not blank, in file order
KeptRows(rows, profile) ==
    SelectSeq(SubSeq(rows, profile.skip_rows + 1, Len(rows)),
              LAMBDA row : Cell(row, profile.date_column) # <<>>)

\* C18: when every row it reads parses, parse returns exactly one transaction
\* per row at index >= skip_rows with a non-blank date cell, in file order;
\* rows with a blank or missing date cell are skipped without error and the
\* first skip_rows rows are discarded whatever they contain.
C18_OneTransactionPerDatedRow ==
    call_out # None =>
        LET r       == Unwrap(call_out)
            profile == call_in.profile
            kept    == KeptRows(call_in.rows, profile)
        IN  (\A k \in 1..Len(kept) :
                /\ parse_date(Cell(kept[k], profile.date_column), profile.date_format).ok
                /\ parse_amount(kept[k], profile).ok)
            => /\ r.ok
               /\ Len(r.val) = Len(kept)
               /\ \A k \in 1..Len(kept) :
                    /\ r.val[k].description = Cell(kept[k], profile.description_column)
                    /\ r.val[k].date = FormatIsoDate(
                           parse_date(Cell(kept[k], profile.date_column),
                                      profile.date_format).val)
                    /\ r.val[k].amount = parse_amount(kept[k], profile).val

\* a discarded first row with an unparseable date, a row without date that is
\* skipped, and a row that becomes the only transaction
C18_Witness ==
    /\ call_out # None
    /\ call_in.profile.skip_rows = 1
    /\ call_in.rows = <<RowBadDate, RowNoCells, RowTea>>
    /\ Unwrap(call_out).ok
    /\ Len(Unwrap(call_out).val) = 1


(***************************************************************************)
(* SpecAmount: parse_amount called once on a row under a profile            *)
(***************************************************************************)
MaxAmountCells == 3

\* the cell texts tried, each with the number it denotes (None: not a number)
AmountCellValues ==
    { << <<" ">>,                               Some(Decimal(FALSE, 0, 0)) >>,
      << <<"5">>,                               Some(Decimal(FALSE, 5, 0)) >>,
      << <<"-", "5">>,                          Some(Decimal(TRUE, 5, 0)) >>,
      << <<"(", "5", ")">>,                     Some(Decimal(TRUE, 5, 0)) >>,
      << <<"$", "1", ",", "5", ".", "0">>,      Some(Decimal(FALSE, 150, 1)) >>,
      << <<"x">>,                               None >> }
AmountCells == {p[1] : p \in AmountCellValues}
AmountRows == SeqsUpTo(AmountCells, MaxAmountCells)
AmountProfiles ==
    {[DefaultProfile EXCEPT !.amount_column = a, !.debit_column = d,
                            !.credit_column = c, !.negate_amounts = n] :
        a \in {None, Some(0)}, d \in {None, Some(1)}, c \in {None, Some(2)},
        n \in BOOLEAN}

AmountInit ==
    /\ call_in \in [row : AmountRows, profile : AmountProfiles]
    /\ call_out = None
    /\ OtherIdle

AmountCall ==
    /\ call_out = None
    /\ call_out' = Some(parse_amount(call_in.row, call_in.profile))
    /\ UNCHANGED <<call_in, hashVars, dbVars, czVars, wizVars>>

AmountNext == AmountCall

SpecAmount == AmountInit /\ [][AmountNext]_vars

\* the text of the cell an optional column names: empty when the column is
\* not configured or the row is too short
CellText(row, oc) ==
    IF oc = None \/ Unwrap(oc) + 1 > Len(row) THEN <<>> ELSE row[Unwrap(oc) + 1]
Blank(text) == text \in {<<>>, <<" ">>}
\* the number a cell text denotes
CellValue(text) ==
    IF text = <<>> THEN Some(DecimalZero)
    ELSE (CHOOSE p \in AmountCellValues : p[1] = text)[2]
Signed(d) == IF d.neg THEN 0 - d.mant ELSE d.mant
AbsInt(n) == IF n < 0 THEN 0 - n ELSE n

\* C19: parse_amount takes the amount column when it is set (ignoring the
\* debit and credit columns); otherwise minus the absolute value of a
\* non-blank debit cell; otherwise plus the absolute value of a non-blank
\* credit cell; otherwise zero.  A blank cell is zero, a parenthesised value
\* is its negative, and the result is negated exactly when negate_amounts.
C19_ParseAmountResolution ==
    call_out # None =>
        LET row     == call_in.row
            profile == call_in.profile
            r       == Unwrap(call_out)
            amount  == CellText(row, profile.amount_column)
            debit   == CellText(row, profile.debit_column)
            credit  == CellText(row, profile.credit_column)
            source  == IF profile.amount_column # None THEN "amount"
                       ELSE IF ~Blank(debit) THEN "debit"
                       ELSE IF ~Blank(credit) THEN "credit"
                       ELSE "none"
            value   == CASE source = "amount" -> CellValue(amount)
                         [] source = "debit"  -> CellValue(debit)
                         [] source = "credit" -> CellValue(credit)
                         [] source = "none"   -> Some(DecimalZero)
            resolved == CASE source = "amount" -> Signed(Unwrap(value))
                          [] source = "debit"  -> 0 - AbsInt(Signed(Unwrap(value)))
                          [] source = "credit" -> AbsInt(Signed(Unwrap(value)))
                          [] source = "none"   -> 0
        IN  value # None =>
                /\ r.ok
                /\ r.val.scale = Unwrap(value).scale
                /\ Signed(r.val) = IF profile.negate_amounts THEN 0 - resolved
                                   ELSE resolved

\* no amount column, a parenthesised debit and a credit that is ignored,
\* under negate_amounts: -abs(-5) negated is 5
C19_Witness ==
    /\ call_out # None
    /\ call_in.profile.amount_column = None
    /\ call_in.profile.debit_column # None
    /\ call_in.profile.credit_column # None
    /\ call_in.profile.negate_amounts
    /\ call_in.row = << <<"x">>, <<"(", "5", ")">>, <<"5">> >>
    /\ Unwrap(call_out).ok
    /\ Signed(Unwrap(call_out).val) = 5


(***************************************************************************)
(* CsvImporter::preview and detect_bank_format                              *)
(***************************************************************************)
\* a CsvProfile as detect_bank_format builds it (skip_rows is 0 in all of them)
BankProfile(name, date_column, description_column, amount_column, debit_column, credit_column, date_format, has_header, negate_amounts, is_credit_account) ==
    [name |-> name, date_column |-> date_column,
     description_column |-> description_column, amount_column |-> amount_column,
     debit_column |-> debit_column, credit_column |-> credit_column,
     date_format |-> date_format, has_header |-> has_header, skip_rows |-> 0,
     negate_amounts |-> negate_amounts, is_credit_account |-> is_credit_account]

\* headers.iter().position(|h| h == name), counting from 0
col_index(headers, name) ==
    LET at == {i \in 1..Len(headers) : headers[i] = name}
    IN  IF at = {} THEN None
        ELSE Some((CHOOSE i \in at : \A j \in at : i <= j) - 1)

\* Option::unwrap_or
unwrap_or(o, default) == IF o = None THEN default ELSE Unwrap(o)

\* detect_bank_format: the fingerprints in the order the code tries them
detect_bank_format(headers, first_row) ==
    LET \* the header names looked for
        H_card_member == <<"c", "a", "r", "d", " ", "m", "e", "m", "b", "e", "r">>
        H_date == <<"d", "a", "t", "e">>
        H_description == <<"d", "e", "s", "c", "r", "i", "p", "t", "i", "o", "n">>
        H_amount == <<"a", "m", "o", "u", "n", "t">>
        H_reference_number == <<"r", "e", "f", "e", "r", "e", "n", "c", "e", " ", "n", "u", "m", "b", "e", "r">>
        H_address == <<"a", "d", "d", "r", "e", "s", "s">>
        H_posted_date == <<"p", "o", "s", "t", "e", "d", " ", "d", "a", "t", "e">>
        H_payee == <<"p", "a", "y", "e", "e">>
        H_running_bal == <<"r", "u", "n", "n", "i", "n", "g", " ", "b", "a", "l">>
        H_original_description == <<"o", "r", "i", "g", "i", "n", "a", "l", " ", "d", "e", "s", "c", "r", "i", "p", "t", "i", "o", "n">>
        H_status == <<"s", "t", "a", "t", "u", "s">>
        H_debit == <<"d", "e", "b", "i", "t">>
        H_credit == <<"c", "r", "e", "d", "i", "t">>
        H_card_no == <<"c", "a", "r", "d", " ", "n", "o", ".">>
        H_transaction_date == <<"t", "r", "a", "n", "s", "a", "c", "t", "i", "o", "n", " ", "d", "a", "t", "e">>
        H_account_number == <<"a", "c", "c", "o", "u", "n", "t", " ", "n", "u", "m", "b", "e", "r">>
        H_transaction_amount == <<"t", "r", "a", "n", "s", "a", "c", "t", "i", "o", "n", " ", "a", "m", "o", "u", "n", "t">>
        H_transaction_description == <<"t", "r", "a", "n", "s", "a", "c", "t", "i", "o", "n", " ", "d", "e", "s", "c", "r", "i", "p", "t", "i", "o", "n">>
        H_trans_date_spaced == <<"t", "r", "a", "n", "s", ".", " ", "d", "a", "t", "e">>
        H_trans_date == <<"t", "r", "a", "n", "s", ".", "d", "a", "t", "e">>
        H_details == <<"d", "e", "t", "a", "i", "l", "s">>
        H_check_or_slip == <<"c", "h", "e", "c", "k", " ", "o", "r", " ", "s", "l", "i", "p">>
        H_posting_date == <<"p", "o", "s", "t", "i", "n", "g", " ", "d", "a", "t", "e">>
        H_post_date == <<"p", "o", "s", "t", " ", "d", "a", "t", "e">>
        H_type == <<"t", "y", "p", "e">>
        h == [i \in 1..Len(headers) |-> trim(to_lowercase(headers[i]))]
        has(name) == \E i \in 1..Len(h) : h[i] = name
        any(part) == \E i \in 1..Len(h) : contains(h[i], part)
        first(name) == h # <<>> /\ h[1] = name
        col(name) == col_index(h, name)
    IN
    IF headers = <<>> /\ Len(first_row) = 5 /\ trim(first_row[3]) = <<"*">>
    THEN Some(BankProfile("Wells Fargo", 0, 4, Some(1), None, None,
                          Fmt_mdY_slash, FALSE, FALSE, FALSE))
    ELSE IF has(H_card_member)
    THEN Some(BankProfile("American Express", unwrap_or(col(H_date), 0),
                          unwrap_or(col(H_description), 1), col(H_amount), None, None,
                          Fmt_mdY_slash, TRUE, TRUE, TRUE))
    ELSE IF has(H_reference_number) /\ has(H_address)
    THEN Some(BankProfile("Bank of America Credit Card",
                          unwrap_or(col(H_posted_date), 0), unwrap_or(col(H_payee), 2),
                          col(H_amount), None, None, Fmt_mdY_slash, TRUE, FALSE, TRUE))
    ELSE IF any(H_running_bal)
    THEN Some(BankProfile("Bank of America Checking", unwrap_or(col(H_date), 0),
                          unwrap_or(col(H_description), 1), col(H_amount), None, None,
                          Fmt_mdY_slash, TRUE, FALSE, FALSE))
    ELSE IF has(H_original_description)
    THEN Some(BankProfile("USAA", unwrap_or(col(H_date), 0),
                          unwrap_or(col(H_description), 1), col(H_amount), None, None,
                          Fmt_mdY_slash, TRUE, FALSE, FALSE))
    ELSE IF first(H_status) /\ has(H_debit) /\ has(H_credit)
    THEN Some(BankProfile("Citi", unwrap_or(col(H_date), 1),
                          unwrap_or(col(H_description), 2), None, col(H_debit),
                          col(H_credit), Fmt_mdY_slash, TRUE, FALSE, TRUE))
    ELSE IF has(H_card_no)
    THEN Some(BankProfile("Capital One Credit Card",
                          unwrap_or(col(H_transaction_date), 0),
                          unwrap_or(col(H_description), 3), None, col(H_debit),
                          col(H_credit), Fmt_Ymd_dash, TRUE, FALSE, TRUE))
    ELSE IF first(H_account_number) /\ has(H_transaction_amount)
    THEN Some(BankProfile("Capital One Checking",
                          unwrap_or(col(H_transaction_date), 1),
                          unwrap_or(col(H_transaction_description), 4),
                          col(H_transaction_amount), None, None,
                          Fmt_mdY_slash, TRUE, FALSE, FALSE))
    ELSE IF any(H_trans_date_spaced) \/ any(H_trans_date)
    THEN Some(BankProfile("Discover", 0, unwrap_or(col(H_description), 2),
                          col(H_amount), None, None, Fmt_mdY_slash, TRUE, FALSE, TRUE))
    ELSE IF has(H_details) /\ any(H_check_or_slip)
    THEN Some(BankProfile("Chase Checking", unwrap_or(col(H_posting_date), 1),
                          unwrap_or(col(H_description), 2), col(H_amount), None, None,
                          Fmt_mdY_slash, TRUE, FALSE, FALSE))
    ELSE IF has(H_transaction_date) /\ has(H_post_date) /\ has(H_type)
    THEN Some(BankProfile("Chase Credit Card",
                          unwrap_or(col(H_transaction_date), 0),
                          unwrap_or(col(H_description), 2), col(H_amount), None, None,
                          Fmt_mdY_slash, TRUE, FALSE, TRUE))
    ELSE None

\* the test preview applies to every field of the first record: a header
\* field is neither a number nor a date
looks_like_header(first_row) ==
    \A i \in 1..Len(first_row) :
        LET trimmed == trim(first_row[i])
        IN  /\ ~DecimalFromStr(trim(replace_chars(trimmed, {"$", ","}, <<>>))).ok
            /\ ~parse_from_str(trimmed, Fmt_mdY_slash).ok
            /\ ~parse_from_str(trimmed, Fmt_Ymd_dash).ok

\* format!("Column {}", i + 1) for i in 0..n
GeneratedHeaders(n) == [i \in 1..n |-> <<"C", "o", "l", "u", "m", "n", " ">> \o NatToStr(i)]

\* CsvImporter::preview on the records of the file (read without header
\* handling): the headers and the data rows
preview(all_rows) ==
    IF all_rows = <<>> THEN Err("CSV file is empty")
    ELSE LET first_row == all_rows[1]
         IN  IF looks_like_header(first_row)
             THEN Ok([headers |-> first_row, rows |-> Tail(all_rows)])
             ELSE Ok([headers |-> GeneratedHeaders(Len(first_row)), rows |-> all_rows])

\* App::load_import_file on a fresh import (cli_import chooses the profile
\* the same way): preview, then detect_bank_format on the headers and the
\* first data row; the default profile stays when nothing is detected
load_import_file(all_rows) ==
    LET p == preview(all_rows)
    IN  IF ~p.ok THEN p
        ELSE LET first_row == IF p.val.rows = <<>> THEN <<>> ELSE p.val.rows[1]
                 detected  == detect_bank_format(p.val.headers, first_row)
             IN  Ok([import_headers |-> p.val.headers,
                     import_rows |-> p.val.rows,
                     import_detected_bank |->
                         IF detected = None THEN None ELSE Some(Unwrap(detected).name),
                     import_profile |->
                         IF detected = None THEN DefaultProfile ELSE Unwrap(detected)])

(***************************************************************************)
(* SpecLoad: a CSV file is loaded for import                                *)
(***************************************************************************)
MaxFileRows == 2

RecWellsFargo ==
    <<<<"0", "1", "/", "1", "5", "/", "2", "0", "2", "4">>,
      <<"-", "4", ".", "5", "0">>,
      <<"*">>,
      <<"1", "2", "3">>,
      <<"C", "O", "F", "F", "E", "E">>>>
RecNoStar ==
    <<<<"0", "1", "/", "1", "5", "/", "2", "0", "2", "4">>,
      <<"-", "4", ".", "5", "0">>,
      <<"X">>,
      <<"1", "2", "3">>,
      <<"C", "O", "F", "F", "E", "E">>>>
RecThreeCells ==
    <<<<"0", "1", "/", "1", "5", "/", "2", "0", "2", "4">>,
      <<"-", "4", ".", "5", "0">>,
      <<"*">>>>
RecWordsStar ==
    <<<<"a">>,
      <<"b">>,
      <<"*">>,
      <<"c">>,
      <<"d">>>>
RecAmexHeader ==
    <<<<"D", "a", "t", "e">>,
      <<"D", "e", "s", "c", "r", "i", "p", "t", "i", "o", "n">>,
      <<"C", "a", "r", "d", " ", "M", "e", "m", "b", "e", "r">>,
      <<"A", "m", "o", "u", "n", "t">>>>
RecBoaHeader ==
    <<<<"D", "a", "t", "e">>,
      <<"D", "e", "s", "c", "r", "i", "p", "t", "i", "o", "n">>,
      <<"A", "m", "o", "u", "n", "t">>,
      <<"R", "u", "n", "n", "i", "n", "g", " ", "B", "a", "l", ".">>>>
RecCitiHeader ==
    <<<<"S", "t", "a", "t", "u", "s">>,
      <<"D", "a", "t", "e">>,
      <<"D", "e", "s", "c", "r", "i", "p", "t", "i", "o", "n">>,
      <<"D", "e", "b", "i", "t">>,
      <<"C", "r", "e", "d", "i", "t">>>>
RecPlainHeader ==
    <<<<"F", "o", "o">>,
      <<"B", "a", "r">>,
      <<"B", "a", "z">>>>
LoadRecords ==
    {RecWellsFargo, RecNoStar, RecThreeCells, RecWordsStar, RecAmexHeader, RecBoaHeader, RecCitiHeader, RecPlainHeader}
LoadFiles == SeqsUpTo(LoadRecords, MaxFileRows)

LoadInit ==
    /\ call_in \in [file : LoadFiles]
    /\ call_out = None
    /\ OtherIdle

LoadImportFile ==
    /\ call_out = None
    /\ call_out' = Some(load_import_file(call_in.file))
    /\ UNCHANGED <<call_in, hashVars, dbVars, czVars, wizVars>>

LoadNext == LoadImportFile

SpecLoad == LoadInit /\ [][LoadNext]_vars

\* a headerless export of five columns whose third column is "*": the first
\* record is already data (a date, then an amount)
WellsFargoExport(file) ==
    /\ file # <<>>
    /\ Len(file[1]) = 5
    /\ trim(file[1][3]) = <<"*">>
    /\ parse_from_str(trim(file[1][1]), Fmt_mdY_slash).ok
    /\ DecimalFromStr(trim(file[1][2])).ok

\* C20: loading a headerless five-column export whose third column is "*"
\* (preview, then detect_bank_format on what preview returns) selects the
\* Wells Fargo profile: no header row, date in column 0, amount in column 1,
\* description in column 4.
C20_WellsFargoSelected ==
    (call_out # None /\ WellsFargoExport(call_in.file)) =>
        LET r == Unwrap(call_out)
        IN  /\ r.ok
            /\ r.val.import_detected_bank = Some("Wells Fargo")
            /\ r.val.import_profile.has_header = FALSE
            /\ r.val.import_profile.date_column = 0
            /\ r.val.import_profile.amount_column = Some(1)
            /\ r.val.import_profile.description_column = 4


(***************************************************************************)
(* SpecDetect: detect_bank_format called once on headers and a first row    *)
(***************************************************************************)
MaxHeaders == 3

\* the header names tried, each with the name it stands for once lower-cased
\* and trimmed
DetectHeaderNames ==
    { << <<"C", "A", "R", "D", " ", "M", "E", "M", "B", "E", "R">>,
         <<"c", "a", "r", "d", " ", "m", "e", "m", "b", "e", "r">> >>,
      << <<"R", "e", "f", "e", "r", "e", "n", "c", "e", " ", "N", "u", "m", "b", "e", "r">>,
         <<"r", "e", "f", "e", "r", "e", "n", "c", "e", " ", "n", "u", "m", "b", "e", "r">> >>,
      << <<"A", "d", "d", "r", "e", "s", "s">>,
         <<"a", "d", "d", "r", "e", "s", "s">> >>,
      << <<" ", "R", "u", "n", "n", "i", "n", "g", " ", "B", "a", "l", ".", " ">>,
         <<"r", "u", "n", "n", "i", "n", "g", " ", "b", "a", "l", ".">> >>,
      << <<"S", "t", "a", "t", "u", "s">>,
         <<"s", "t", "a", "t", "u", "s">> >>,
      << <<"D", "e", "b", "i", "t">>,
         <<"d", "e", "b", "i", "t">> >>,
      << <<"C", "r", "e", "d", "i", "t">>,
         <<"c", "r", "e", "d", "i", "t">> >>,
      << <<"T", "r", "a", "n", "s", ".", " ", "D", "a", "t", "e">>,
         <<"t", "r", "a", "n", "s", ".", " ", "d", "a", "t", "e">> >>,
      << <<"F", "o", "o">>,
         <<"f", "o", "o">> >> }
DetectHeaders == SeqsUpTo({p[1] : p \in DetectHeaderNames}, MaxHeaders)
DetectFirstRows == {<<>>, RecWellsFargo, RecNoStar}

DetectInit ==
    /\ call_in \in [headers : DetectHeaders, first_row : DetectFirstRows]
    /\ call_out = None
    /\ OtherIdle

DetectCall ==
    /\ call_out = None
    /\ call_out' = Some(detect_bank_format(call_in.headers, call_in.first_row))
    /\ UNCHANGED <<call_in, hashVars, dbVars, czVars, wizVars>>

DetectNext == DetectCall

SpecDetect == DetectInit /\ [][DetectNext]_vars

\* the name a header of the table stands for
HeaderName(text) == (CHOOSE p \in DetectHeaderNames : p[1] = text)[2]

\* the banks in the order of their fingerprints, and the fingerprints that
\* the headers and first row match (names as the table gives them)
BankOrder ==
    <<"Wells Fargo", "American Express", "Bank of America Credit Card",
      "Bank of America Checking", "USAA", "Citi", "Capital One Credit Card",
      "Capital One Checking", "Discover", "Chase Checking", "Chase Credit Card">>
MatchingBanks(headers, first_row) ==
    LET n == [i \in 1..Len(headers) |-> HeaderName(headers[i])]
        has(name) == \E i \in 1..Len(n) : n[i] = name
    IN  {k \in 1..Len(BankOrder) :
            \/ k = 1 /\ headers = <<>> /\ first_row = RecWellsFargo
            \/ k = 2 /\ has(<<"c", "a", "r", "d", " ", "m", "e", "m", "b", "e", "r">>)
            \/ k = 3 /\ has(<<"r", "e", "f", "e", "r", "e", "n", "c", "e", " ", "n", "u", "m", "b", "e", "r">>) /\ has(<<"a", "d", "d", "r", "e", "s", "s">>)
            \/ k = 4 /\ has(<<"r", "u", "n", "n", "i", "n", "g", " ", "b", "a", "l", ".">>)
            \/ k = 6 /\ n # <<>> /\ n[1] = <<"s", "t", "a", "t", "u", "s">> /\ has(<<"d", "e", "b", "i", "t">>) /\ has(<<"c", "r", "e", "d", "i", "t">>)
            \/ k = 9 /\ has(<<"t", "r", "a", "n", "s", ".", " ", "d", "a", "t", "e">>)}

\* C21: detect_bank_format compares header names lower-cased and trimmed,
\* tries the fingerprints in one fixed order and returns the profile of the
\* first that matches (the earlier one when several match), and None when
\* none matches.
C21_FirstFingerprintWins ==
    call_out # None =>
        LET r       == Unwrap(call_out)
            matches == MatchingBanks(call_in.headers, call_in.first_row)
        IN  IF matches = {} THEN r = None
            ELSE /\ r # None
                 /\ Unwrap(r).name =
                        BankOrder[CHOOSE k \in matches : \A j \in matches : k <= j]

\* upper-case and padded headers matching the American Express, Bank of
\* America Checking and Discover fingerprints: American Express is returned
C21_Witness ==
    /\ call_out # None
    /\ call_in.headers = <<<<"C", "A", "R", "D", " ", "M", "E", "M", "B", "E", "R">>,
                         <<" ", "R", "u", "n", "n", "i", "n", "g", " ", "B", "a", "l", ".", " ">>,
                         <<"T", "r", "a", "n", "s", ".", " ", "D", "a", "t", "e">>>>
    /\ Unwrap(call_out) # None
    /\ Unwrap(Unwrap(call_out)).name = "American Express"


\* the characters of the suggest descriptions in lower case
LowerOf(c) == IF c = "B" THEN "b" ELSE c
LowerText(t) == [i \in 1..Len(t) |-> LowerOf(t[i])]
\* the text left of a description: digits and '#' deleted, '*' made a space
Denoised(d) ==
    LET keep == SelectSeq(d, LAMBDA c : c \notin {"1", "#"})
    IN  [i \in 1..Len(keep) |-> IF keep[i] = "*" THEN " " ELSE keep[i]]
\* positions where a word of t starts and where one ends
WordStarts(t) == {i \in 1..Len(t) : t[i] # " " /\ (i = 1 \/ t[i - 1] = " ")}
WordEnds(t) == {i \in 1..Len(t) : t[i] # " " /\ (i = Len(t) \/ t[i + 1] = " ")}
\* the k-th word of t (k from 1)
NthWord(t, k) ==
    LET start == CHOOSE i \in WordStarts(t) :
                     Cardinality({j \in WordStarts(t) : j < i}) = k - 1
        end   == CHOOSE i \in WordEnds(t) : i >= start /\ \A j \in WordEnds(t) : j >= start => i <= j
    IN  SubSeq(t, start, end)
\* the pattern the contract gives for a description
ExpectedPattern(d) ==
    LET t == Denoised(d)
        n == Cardinality(WordStarts(t))
    IN  LowerText(IF n >= 2 THEN NthWord(t, 1) \o <<" ">> \o NthWord(t, 2)
                  ELSE IF n = 1 THEN NthWord(t, 1)
                  ELSE d)

\* C22: suggest_rule returns, in lower case, the first two whitespace-
\* delimited words (joined by one space, or the only word) of the description
\* with digits and '#' deleted and '*' replaced by a space; when no word is
\* left it returns the lower-cased description itself.
C22_SuggestedPattern ==
    call_out.rules # <<>> =>
        call_out.rules[1].pattern = ExpectedPattern(call_in.description)

\* a description of two words glued by '*', with a digit and an upper-case
\* letter: "B*1" has one word left, "a*B" two
C22_Witness ==
    /\ call_out.rules # <<>>
    /\ call_in.description = <<"a", "*", "B">>
    /\ call_out.rules[1].pattern = <<"a", " ", "b">>


\* C30: the wizard never stores a contains rule with an empty pattern: for
\* every description it can show, the empty one of a blank description cell
\* included, the pattern stored on assignment is non-empty.
C30_NoEmptyPattern ==
    call_out.rules # <<>> => call_out.rules[1].pattern # <<>>


\* the step is an assignment whose rule could not be stored: the handler
\* failed with the rule table as it was (a created category was stored)
RuleStoreFailed ==
    /\ wiz'.key \in {"PickEnter", "CreateEnter"}
    /\ ~wiz'.result.ok
    /\ db_rules' = db_rules
    /\ wiz'.key = "CreateEnter" => db_categories' # db_categories

\* C25: storing the suggested rule is best-effort: when it fails, the chosen
\* category is still given to the transactions of the current description,
\* the wizard still moves to the next description or commits, and the
\* program keeps running.
C25_RuleFailureTolerated ==
    [][RuleStoreFailed
       => /\ \A i \in 1..Len(app.import_preview) :
                (/\ app.import_preview[i].original_description = CurrentDescription
                 /\ app.import_preview[i].category_id = None)
                => app'.import_preview[i].category_id # None
          /\ \/ app'.import_step = "Complete"
             \/ app'.import_cat_index = app.import_cat_index + 1
          /\ running'
      ]_vars


\* C23: two rows of one file with the same date, description and amount are
\* not merged: importing the file into an empty ledger stores two
\* transactions and returns the count 2.
C23_IdenticalRowsBothStored ==
    [][(/\ db_transactions = <<>>
        /\ db_call'.op = "import" /\ db_call'.result.ok
        /\ Len(db_call'.file) = 2
        /\ db_call'.file[1] = db_call'.file[2])
       => (db_call'.result.val = 2 /\ Len(db_transactions') = 2)]_vars


(***************************************************************************)
(* SpecDate: parse_date called once on a date cell and a profile format     *)
(***************************************************************************)
\* date cells: three numbers with one separator, in the shapes the formats
\* read, and two cells no format reads
DateNumbers == {<<"0", "1">>, <<"1", "3">>, <<"2", "0", "2", "4">>, <<"2", "4">>}
DateStrings ==
    {a \o <<sep>> \o b \o <<sep>> \o c :
        a \in DateNumbers, b \in DateNumbers, c \in DateNumbers, sep \in {"/", "-"}}
    \cup {<<>>, <<"x">>}
DateFormats == {Fmt_mdY_slash, Fmt_Ymd_dash, Fmt_mdY_dash, Fmt_mdy_slash, Fmt_dmY_slash}

DateInit ==
    /\ call_in \in [s : DateStrings, fmt : DateFormats]
    /\ call_out = None
    /\ OtherIdle

DateCall ==
    /\ call_out = None
    /\ call_out' = Some(parse_date(call_in.s, call_in.fmt))
    /\ UNCHANGED <<call_in, hashVars, dbVars, czVars, wizVars>>

DateNext == DateCall

SpecDate == DateInit /\ [][DateNext]_vars

\* the formats in the order the contract gives: the profile's, then
\* %m/%d/%Y, %Y-%m-%d, %m-%d-%Y, %m/%d/%y, %d/%m/%Y
DateSequence(fmt) ==
    <<fmt,
      <<"%m", "/", "%d", "/", "%Y">>, <<"%Y", "-", "%m", "-", "%d">>,
      <<"%m", "-", "%d", "-", "%Y">>, <<"%m", "/", "%d", "/", "%y">>,
      <<"%d", "/", "%m", "/", "%Y">>>>

\* C27: parse_date returns the date read by the first format, of the
\* profile's format followed by the fallbacks in their fixed order, that
\* accepts the string, and an error when none does (the empty string
\* included).
C27_FirstAcceptingFormat ==
    call_out # None =>
        LET r        == Unwrap(call_out)
            seq      == DateSequence(call_in.fmt)
            accepted == {k \in 1..Len(seq) : parse_from_str(call_in.s, seq[k]).ok}
        IN  /\ call_in.s = <<>> => ~r.ok
            /\ IF accepted = {} THEN ~r.ok
               ELSE /\ r.ok
                    /\ r.val = parse_from_str(call_in.s,
                           seq[CHOOSE k \in accepted : \A j \in accepted : k <= j]).val

\* 01/13/2024 under a day-first profile format, which rejects it (month 13):
\* the fallback %m/%d/%Y reads 13 January
C27_Witness ==
    /\ call_out # None
    /\ call_in.fmt = Fmt_dmY_slash
    /\ call_in.s = <<"0", "1", "/", "1", "3", "/", "2", "0", "2", "4">>
    /\ Unwrap(call_out) = Ok(NaiveDate(2024, 1, 13))


\* no transaction of the batch lacks a category
AllCategorized(batch) == \A i \in 1..Len(batch) : batch[i].category_id # None

\* C26: when the bulk categorization at the confirmation of the import
\* leaves no transaction uncategorized, the Categorize step is not entered:
\* the same action commits the batch and the step goes from Preview to
\* Complete.
C26_NoResidueCommitsDirectly ==
    [][(/\ wiz'.key = "ConfirmYes" /\ wiz'.result.ok
        /\ AllCategorized(app'.import_preview))
       => /\ app.import_step = "Preview"
          /\ app'.import_step = "Complete"
          /\ db_call'.op = "commit" /\ db_call'.batch = app'.import_preview
          /\ db_transactions'
             = insert_transactions_batch(db_transactions, app'.import_preview).table
      ]_vars

\* a batch of two transactions, both categorized by the stored rule at the
\* confirmation, was committed from the preview
C26_Witness ==
    /\ wiz.key = "ConfirmYes" /\ wiz.result = Ok("committed")
    /\ app.import_step = "Complete"
    /\ Len(app.import_preview) = 2
    /\ AllCategorized(app.import_preview)
    /\ Len(db_transactions) >= 1


\* C28: while the import step is Categorize the cursor import_cat_index is a
\* valid index of the description list, and a step that stays in Categorize
\* (assign, create, skip, navigation in the category list, typing and its
\* cancellation) leaves the list as it is and does not move the cursor back.
C28_CursorInvariants ==
    [][/\ app'.import_step = "Categorize"
          => /\ app'.import_cat_index >= 0
             /\ app'.import_cat_index < Len(app'.import_cat_descriptions)
       /\ (app.import_step = "Categorize" /\ app'.import_step = "Categorize")
          => /\ app'.import_cat_descriptions = app.import_cat_descriptions
             /\ app'.import_cat_index >= app.import_cat_index
      ]_vars

\* the cursor stands on the second of two descriptions, the first having been
\* skipped, after a name was typed and its typing cancelled
C28_Witness ==
    /\ app.import_step = "Categorize"
    /\ Len(app.import_cat_descriptions) = 2
    /\ app.import_cat_index = 1
    /\ wiz.key = "CreateEsc"
    /\ wiz.skipped # {}


\* the descriptions of the wizard list, and how many of them have been dealt
\* with since the wizard was entered: skipped, or given a category (every
\* transaction of the description then has one)
Listed(a) == {a.import_cat_descriptions[k][1] : k \in 1..Len(a.import_cat_descriptions)}
DealtWith(a, skipped) ==
    Cardinality({d \in Listed(a) :
        \/ d \in skipped
        \/ \A i \in 1..Len(a.import_preview) :
              a.import_preview[i].original_description = d
              => a.import_preview[i].category_id # None})
\* the step is an assignment (of an existing or a created category) or a
\* skip-one that storage accepted
ActedStep ==
    /\ wiz'.key \in {"PickEnter", "CreateEnter", "PickSkip"}
    /\ wiz'.result.ok /\ wiz'.result.val # "handled"

\* C29: the wizard ends: of N descriptions, each assignment or skip-one
\* deals with one more; the first N - 1 of these actions leave the wizard in
\* Categorize, and the N-th commits the batch (once: nothing was stored
\* before) and makes the step Complete.
C29_WizardTerminates ==
    [][ActedStep
       => LET n == Len(app.import_cat_descriptions)
              k == DealtWith(app, wiz.skipped)
          IN  /\ k < n
              /\ IF k + 1 < n
                 THEN /\ app'.import_step = "Categorize"
                      /\ DealtWith(app', wiz'.skipped) = k + 1
                      /\ db_transactions' = db_transactions
                 ELSE /\ app'.import_step = "Complete"
                      /\ db_transactions = <<>>
                      /\ db_call'.op = "commit" /\ db_call'.result.ok
                      /\ db_transactions'
                         = insert_transactions_batch(<<>>, app'.import_preview).table
      ]_vars

\* two descriptions, the first skipped and the second given a category: the
\* second action committed the batch
C29_Witness ==
    /\ wiz.key = "PickEnter" /\ wiz.result = Ok("committed")
    /\ app.import_step = "Complete"
    /\ Len(app.import_cat_descriptions) = 2
    /\ Cardinality(wiz.skipped) = 1
    /\ db_transactions # <<>>


(***************************************************************************)
(* SpecShared: the interactive import while another process writes to the   *)
(* same database file (categories and rules are plain tables; every read of *)
(* the import sees what is stored at that moment)                           *)
(***************************************************************************)
ForeignName == <<"x">>
ForeignPattern == <<"u">>

SharedInit ==
    /\ db_categories = <<CatG, CatE>>
    /\ db_rules = <<>>
    /\ app = refresh_categories(
                [AppNew EXCEPT !.import_step = "SelectAccount",
                               !.import_rows = <<RowTea, RowBus>>],
                <<CatG, CatE>>, <<>>)
    /\ running = TRUE
    /\ wiz = NoKey
    /\ HashIdle /\ DbIdle /\ CzIdle /\ CallIdle

\* the other process stores a category
OtherAddsCategory ==
    /\ running /\ app.import_step # "Complete"
    /\ insert_category(db_categories, ForeignName).ok
    /\ db_categories' = insert_category(db_categories, ForeignName).val.table
    /\ wiz' = [key |-> "OtherProcess", result |-> Ok("none"), skipped |-> wiz.skipped]
    /\ UNCHANGED <<app, db_rules, db_transactions, db_call, running,
                   hashVars, czVars, callVars>>

\* the other process stores a rule while the wizard is open
OtherAddsRule ==
    /\ running /\ app.import_step = "Categorize"
    /\ \A k \in 1..Len(db_rules) : db_rules[k].pattern # ForeignPattern
    /\ db_rules' = insert_import_rule(db_rules, db_categories,
                                      new_contains(ForeignPattern, 2)).val.table
    /\ wiz' = [key |-> "OtherProcess", result |-> Ok("none"), skipped |-> wiz.skipped]
    /\ UNCHANGED <<app, db_categories, db_transactions, db_call, running,
                   hashVars, czVars, callVars>>

SharedNext == Next \/ OtherAddsCategory \/ OtherAddsRule

SpecShared == SharedInit /\ [][SharedNext]_vars

InProgress == app'.import_step \in {"SelectAccount", "Preview", "Categorize"}
Foreign(rule) == rule.pattern = ForeignPattern

====
